---- MODULE Spec2Model ----
(***************************************************************************)
(* A model of the JSON-RPC 2.0 connection of go-modelcontextprotocol      *)
(* (package jsonrpc2): one Conn, the goroutines that use it (Call, Notify, *)
(* Close, the serve loop) and its peer, which is the environment and may   *)
(* send any message at any time.                                           *)
(*                                                                         *)
(* Granularity.  A step of a goroutine is a maximal run of statements that *)
(* neither blocks nor is separated by a blocking operation from the next   *)
(* read of shared state.  Critical sections under c.mutex that only touch  *)
(* the pending map are one step; transport.Send is two steps (it starts,   *)
(* it returns), because it blocks until the peer reads; a handler is two   *)
(* steps (it is invoked, it returns).                                      *)
(***************************************************************************)
EXTENDS Integers, Sequences, FiniteSets, TLC

\* ------------------------------------------------------------------ bounds
\* Number of Call / Notify invocations made on the connection.
NCalls == 2
\* Largest integer ID a caller of Conn.Call passes directly.
MaxDirectId == 1

Calls == 1..NCalls

\* The goroutines that call Close concurrently.
NClosers == 2

Closers == 1..NClosers

\* The goroutines that call RegisterHandler while the connection is in use.
NRegistrars == 2

Registrars == 1..NRegistrars

\* The two connections joined by a pipe, and the other side of each.
Sides == {1, 2}

Peer(s) == 3 - s

\* The tasks that make a Call on each side of the pipe.
NPipeTasks == 2

PipeTasks == 1..NPipeTasks

\* The goroutines that call Close on the SSE session.
NSessionClosers == 2

SessionClosers == 1..NSessionClosers

\* ------------------------------------------------------------------ ID
\* ID{value any}: nil, an int or a string.  t is the dynamic type of value.
NullID == [t |-> "nil", v |-> 0]

NewID(n) == [t |-> "int", v |-> n]

IsNull(id) == id.t = "nil"

\* A JSON value found under the "id" key of a wire message: the key may be
\* absent, or hold null, a number (kept in tenths, so 15 is 1.5) or a value
\* of another JSON type (true, an array, ...).
AbsentW == [t |-> "absent", v |-> 0]
NullW == [t |-> "null", v |-> 0]
BadW == [t |-> "bad", v |-> 0]
NumW(tenths) == [t |-> "num", v |-> tenths]

\* ID.UnmarshalJSON, applied by encoding/json to the "id" member of a message:
\* a number is decoded as float64 and converted with int(v), which truncates;
\* null gives the null ID; any other type is an error.  An absent key leaves
\* the zero ID, which is the null ID.
UnmarshalIDOk(w) == w.t # "bad"

UnmarshalID(w) == IF w.t = "num" THEN NewID(w.v \div 10) ELSE NullID

\* ID.MarshalJSON: the wire form of an ID.
MarshalID(id) == IF IsNull(id) THEN NullW ELSE NumW(id.v * 10)

\* ------------------------------------------------------------------ messages
\* ------------------------------------------------------------------ codes
CodeParseError == -32700
CodeInvalidRequest == -32600
CodeMethodNotFound == -32601
CodeInternalError == -32603
\* convertError's code for an error that carries no code of its own.
CodeServerError == -32000

\* A received raw message.  shape "junk" is a JSON value that is not an object
\* (a number, a string); shape "obj" is an object, described by the keys the
\* connection looks at: ver is whether "jsonrpc" is "2.0", method is "" when the
\* key is absent, result and error are whether those keys are present, ecode
\* is the "code" of the error member (0 without one).
NoMsg == [shape |-> "none", ver |-> FALSE, id |-> AbsentW, method |-> "",
          result |-> FALSE, error |-> FALSE, ecode |-> 0]

Junk == [shape |-> "junk", ver |-> FALSE, id |-> AbsentW, method |-> "",
         result |-> FALSE, error |-> FALSE, ecode |-> 0]

Obj(ver, id, method, result, error) ==
    [shape |-> "obj", ver |-> ver, id |-> id, method |-> method,
     result |-> result, error |-> error,
     ecode |-> IF error THEN CodeServerError ELSE 0]

\* An error response: {"jsonrpc":"2.0","id":id,"error":{"code":code,"message":"e"}}
ErrObj(id, code) ==
    [shape |-> "obj", ver |-> TRUE, id |-> id, method |-> "",
     result |-> FALSE, error |-> TRUE, ecode |-> code]

\* The messages the peer sends in this model: requests and notifications for a
\* registered ("m") and an unregistered ("u") method, with integer, fractional,
\* null and ill-typed ids; responses for the IDs in use and for IDs nobody
\* waits on; malformed messages.
InRequests == { Obj(TRUE, NumW(10), "m", FALSE, FALSE),
                Obj(TRUE, NumW(10), "u", FALSE, FALSE),
                Obj(TRUE, NumW(15), "u", FALSE, FALSE),
                Obj(TRUE, NullW, "m", FALSE, FALSE),
                Obj(TRUE, BadW, "u", FALSE, FALSE) }

InNotifications == { Obj(TRUE, AbsentW, m, FALSE, FALSE) : m \in {"m", "u"} }

InResponses == { Obj(TRUE, NumW(10), "", TRUE, FALSE),
                 Obj(TRUE, NumW(15), "", TRUE, FALSE),
                 Obj(TRUE, NumW(20), "", TRUE, FALSE),
                 Obj(TRUE, AbsentW, "", FALSE, TRUE) }

\* Error responses for the first ID of the counter: the one a peer sends for an
\* unregistered method, and one whose error has the code 0.
InErrorResponses == { ErrObj(NumW(10), CodeMethodNotFound), ErrObj(NumW(10), 0) }

InMalformed == { Junk,
                 Obj(FALSE, NumW(10), "m", FALSE, FALSE),
                 Obj(TRUE, NumW(10), "", FALSE, FALSE) }

Inbound == InRequests \cup InNotifications \cup InResponses \cup InMalformed

\* A batch: a JSON array, items its elements in order.
Batch(items) ==
    [shape |-> "batch", ver |-> FALSE, id |-> AbsentW, method |-> "",
     result |-> FALSE, error |-> FALSE, ecode |-> 0, items |-> items]

\* The length of the longest batch the peer sends.
MaxBatch == 2

\* The messages the peer puts into batches: requests for a registered and an
\* unregistered method, with integer, null and ill-typed ids, both
\* notifications, a response, an object of the wrong version and a value that
\* is not an object.
InBatchElements ==
    { Obj(TRUE, NumW(10), "m", FALSE, FALSE),
      Obj(TRUE, NumW(10), "u", FALSE, FALSE),
      Obj(TRUE, NullW, "m", FALSE, FALSE),
      Obj(TRUE, BadW, "u", FALSE, FALSE),
      Obj(TRUE, NumW(10), "", TRUE, FALSE),
      Obj(FALSE, NumW(10), "m", FALSE, FALSE),
      Junk } \cup InNotifications

\* The batches the peer sends: the empty one, and every array of up to MaxBatch
\* of these messages.
InBatches ==
    { Batch(items) : items \in UNION { [1..n -> InBatchElements] : n \in 0..MaxBatch } }

\* Mutant of getMessageType: the method key is looked at before the result key.
getMessageTypeMethodFirst(msg) ==
    IF ~msg.ver THEN "invalid"
    ELSE IF msg.error THEN "response"
    ELSE IF msg.method # "" THEN (IF msg.id.t # "absent" THEN "request" ELSE "notification")
    ELSE IF msg.result THEN (IF msg.id.t # "absent" THEN "response" ELSE "invalid")
    ELSE "invalid"

\* getMessageType: the classifier.
getMessageType(msg) ==
    IF ~msg.ver THEN "invalid"
    ELSE IF msg.error THEN "response"
    ELSE IF msg.result THEN (IF msg.id.t # "absent" THEN "response" ELSE "invalid")
    ELSE IF msg.method # "" THEN (IF msg.id.t # "absent" THEN "request" ELSE "notification")
    ELSE "invalid"

\* Request.UnmarshalJSON / Response.UnmarshalJSON succeed when the version is
\* "2.0" and the id member decodes.
UnmarshalOk(msg) == msg.ver /\ UnmarshalIDOk(msg.id)

\* ------------------------------------------------------------------ replies

\* A Response the connection marshals and sends: its ID, whether its Result is
\* a non-nil value, whether its Error is not the zero Error, the Error's Code,
\* and whether it is encoded by Response.MarshalJSON, which writes "jsonrpc".
Response(id, result, error, code) ==
    [id |-> id, result |-> result, error |-> error, code |-> code, ver |-> TRUE]

\* generateErrorResponse, and sendError for NewError(code, message, nil) with a
\* message: an error response.
Reply(id, code) == Response(id, FALSE, TRUE, code)

NoReply == Response(NullID, FALSE, FALSE, 0)

\* The reply to a batch: a JSON array of the collected responses.
BatchReply(resp) == [array |-> resp]

\* Response.MarshalJSON and the struct tags: "result" is written unless Result
\* is nil (omitempty, omitzero) and "error" unless Error is the zero Error
\* (omitzero).  The members of the written object, among result and error.
WireMembers(r) ==
    (IF r.result THEN {"result"} ELSE {}) \cup (IF r.error THEN {"error"} ELSE {})

\* The "id" member of a written Response: the field is tagged omitzero, so the
\* null ID, which is the zero ID, is left out; any other ID is written by
\* ID.MarshalJSON.
WireID(r) == IF IsNull(r.id) THEN AbsentW ELSE MarshalID(r.id)

\* What a handler returns: a non-nil result, a nil result (Result is any),
\* an error of another package, a jsonrpc2.Error with a code and a message, or
\* the zero jsonrpc2.Error.
HandlerOutcomes == {"result", "nil", "error", "rpcError", "zeroError"}

\* The outcomes told apart by where the reply goes: a result and an error.
MainOutcomes == {"result", "error"}

\* The code of the jsonrpc2.Error a handler returns.
HandlerErrorCode == -32601

\* convertError: the Code of the wire Error made from the handler's error.
convertError(h) ==
    IF h = "error" THEN CodeServerError
    ELSE IF h = "rpcError" THEN HandlerErrorCode
    ELSE 0

VARIABLES
    closed,     \* c.closed has been closed
    tclosed,    \* transport.Close() has been called
    mutex,      \* holder of c.mutex: "free" or "serve"
    pending,    \* c.pending: ID -> the Call whose respCh is registered
    handlers,   \* c.handlers: the registered methods
    idctr,      \* the package-level atomic counter id
    cpc,        \* per invocation: where it is
    cop,        \* per invocation: "call" (Conn.Call), "gcall" (generic Call), "notify"
    cid,        \* per invocation: the ID it uses
    slot,       \* per invocation: content of respCh (capacity 1)
    cgot,       \* per invocation: the response it read from respCh
    cres,       \* per invocation: what it returned
    lpc,        \* the serve loop: where it is
    lctx,       \* the context given to Serve is done
    lmsg,       \* the message the loop is handling, or handled last
    lsnd,       \* the reply the loop is sending
    lout,       \* the replies the loop has passed to transport.Send for lmsg
    lch,        \* handleResponse: the channel taken from pending (0: none)
    lerr,       \* what Serve returned
    lopen,      \* the loop was started by Open, with context.Background()
    lidx,       \* handleBatchMessage: the batch elements gone through
    lresp,      \* handleBatchMessage: the responses collected so far
    kpc,        \* per concurrent Close invocation: where it is
    gin,        \* getMessageType on its own: the object given to it
    gtype,      \* getMessageType on its own: what it returned
    rpc,        \* per RegisterHandler invocation: where it is, and its method
    qpc,        \* two connections on a pipe, per side and task: where it is
    qloop,      \* per side: where its serve loop is
    qreq,       \* per side: the ID of the request its handler is running for
    qpend,      \* per side: the tasks whose ID is in c.pending
    qslot,      \* per side: the tasks whose respCh holds a response
    qmutex,     \* per side: holder of c.mutex, "free" or "loop"
    qpipe,      \* per side: the Writes blocked in the io.Pipe written by it
    routes,     \* Mux.routes: the registered routes, in registration order
    mout,       \* the outcome of the last Handle or Execute on the Mux
    notFoundHandler, \* Mux.notFoundHandler is not nil
    sdone,      \* SSESession.done: "nil", "open" or "closed"
    sch,        \* SSESession.ch: "none" before the session is made, "open" or "closed"
    stable,     \* the session is in SSE.sessions
    gpc,        \* where the GET request's handleSSE stands
    gctx,       \* the GET request's context is done
    xpc,        \* where each caller of SSESession.Close stands
    ppc,        \* where the POST request's handleMessage stands
    hpc,        \* where the caller of SSESession.HandleMessage stands
    spanic      \* the run-time panics raised so far

callVars == <<cpc, cop, cid, slot, cgot, cres>>
loopVars == <<lpc, lctx, lmsg, lsnd, lout, lch, lerr>>
connVars == <<closed, tclosed, mutex, pending, handlers, idctr>>
\* The variables of the batch path, of Open and of concurrent Closes.
\* The variables of two connections joined by NewPipe.
pipeVars == <<qpc, qloop, qreq, qpend, qslot, qmutex, qpipe>>
\* The variables of the router.
muxVars == <<routes, mout, notFoundHandler>>
\* The variables of the SSE transport.
sseVars == <<sdone, sch, stable, gpc, gctx, xpc, ppc, hpc, spanic>>
auxVars == <<lopen, lidx, lresp, kpc, gin, gtype, rpc, pipeVars, muxVars, sseVars>>
\* The variables of the functions checked on their own.
funVars == <<gin, gtype>>
vars == <<closed, tclosed, mutex, pending, handlers, idctr,
          cpc, cop, cid, slot, cgot, cres,
          lpc, lctx, lmsg, lsnd, lout, lch, lerr,
          lopen, lidx, lresp, kpc, gin, gtype, rpc,
          qpc, qloop, qreq, qpend, qslot, qmutex, qpipe, routes, mout, notFoundHandler,
          sdone, sch, stable, gpc, gctx, xpc, ppc, hpc, spanic>>

\* ------------------------------------------------------------------ pending
EmptyPending == [i \in {} |-> 0]

\* c.pending[id] = respCh (Conn.Call, under the mutex).
Register(p, id, c) == [i \in DOMAIN p \cup {id} |-> IF i = id THEN c ELSE p[i]]

\* delete(c.pending, id)
Delete(p, id) == [i \in DOMAIN p \ {id} |-> p[i]]

\* ------------------------------------------------------------------ Init
\* NewConnection with WithHandler("m", ...): nothing pending, not closed.
ConnInit ==
    /\ closed = FALSE
    /\ tclosed = FALSE
    /\ mutex = "free"
    /\ pending = EmptyPending
    /\ handlers = {"m"}
    /\ idctr = 0
    /\ cpc = [c \in Calls |-> "idle"]
    /\ cop = [c \in Calls |-> "none"]
    /\ cid = [c \in Calls |-> NullID]
    /\ slot = [c \in Calls |-> NoMsg]
    /\ cgot = [c \in Calls |-> NoMsg]
    /\ cres = [c \in Calls |-> "none"]
    /\ lpc = "init"
    /\ lctx = FALSE
    /\ lmsg = NoMsg
    /\ lsnd = NoReply
    /\ lout = << >>
    /\ lch = 0
    /\ lerr = "none"
    /\ lopen = FALSE
    /\ lidx = 0
    /\ lresp = << >>
    /\ kpc = [k \in Closers |-> "idle"]
    /\ rpc = [k \in Registrars |-> [pc |-> "idle", method |-> ""]]

\* No function is being checked on its own.
NoInput == [jsonrpc |-> "absent", msg |-> NoMsg]

FunInit == gin = NoInput /\ gtype = "none"

\* a, b := NewPipe(); NewConnection on each with a handler, both serving and
\* waiting in Receive; no Call made yet.
PipeInit ==
    /\ qpc = [s \in Sides |-> [t \in PipeTasks |-> "idle"]]
    /\ qloop = [s \in Sides |-> "recv"]
    /\ qreq = [s \in Sides |-> 0]
    /\ qpend = [s \in Sides |-> {}]
    /\ qslot = [s \in Sides |-> {}]
    /\ qmutex = [s \in Sides |-> "free"]
    /\ qpipe = [s \in Sides |-> {}]

\* NewMux: no route, nothing done yet.
NoURI == [sep |-> FALSE, scheme |-> << >>, host |-> << >>, path |-> << >>, query |-> << >>]

NoOutcome ==
    [op |-> "none", uri |-> NoURI, err |-> "none", handler |-> 0,
     params |-> << >>, query |-> << >>]

MuxInit == routes = << >> /\ mout = NoOutcome /\ notFoundHandler = FALSE

\* NewSSE: no GET request yet, no session, nobody closing or posting.
SseInit ==
    /\ sdone = "nil" /\ sch = "none" /\ stable = FALSE
    /\ gpc = "idle" /\ gctx = FALSE
    /\ xpc = [k \in SessionClosers |-> "idle"]
    /\ ppc = "idle"
    /\ hpc = "idle"
    /\ spanic = {}

Init == ConnInit /\ FunInit /\ PipeInit /\ MuxInit /\ SseInit

\* ------------------------------------------------------------------ select
\* Mutant of Select: the case <-c.closed is missing.
SelectIgnoringClosed(ctxDone, isClosed) == IF ctxDone THEN {"ctx"} ELSE {"default"}

\* select { case <-ctx.Done(): ...; case <-c.closed: ...; default: ... }
\* Go takes default only when no case is ready and picks among the ready
\* cases at random.
Select(ctxDone, isClosed) ==
    IF ctxDone \/ isClosed
    THEN (IF ctxDone THEN {"ctx"} ELSE {}) \cup (IF isClosed THEN {"closed"} ELSE {})
    ELSE {"default"}

\* What a transport.Send that returns now can return: nil or an error, at any
\* time.  The peer may have gone while the transport is open; and after
\* transport.Close() a Send may still succeed: Generic.Send does not look at
\* whether Close was called, and Generic.Close leaves a writer that is not an
\* io.Closer as it is.
SendResults == {TRUE, FALSE}

\* ------------------------------------------------------------------ Call
\* Mutant of Add: the counter is read and not advanced.
AddNotAdvancing(ctr) == ctr

\* The package-level counter: id.Add(1) returns the new value.
Add(ctr) == ctr + 1

Return(c, res) ==
    /\ cpc' = [cpc EXCEPT ![c] = "done"]
    /\ cres' = [cres EXCEPT ![c] = res]

\* A caller's context is not part of the state: ctx.Done() is read at the
\* entry of an operation, where ctxDone says what is read, and in Conn.Call's
\* final select, where the context may become done at any time (CallCtxDone).

\* Conn.Call up to the first c.mutex.Lock(): the entry select.  (json.Marshal
\* of the request is taken to succeed.)
ConnCallEnter(c, id, ctxDone) ==
    /\ cid' = [cid EXCEPT ![c] = id]
    /\ \E s \in Select(ctxDone, closed) :
         IF s = "ctx" THEN Return(c, "ctxErr")
         ELSE IF s = "closed" THEN Return(c, "closedErr")
         ELSE /\ cpc' = [cpc EXCEPT ![c] = "lock"]
              /\ cres' = cres

\* A caller invokes conn.Call(ctx, id, method, params, &result) with an ID of
\* its own choice.
Call(c, id, ctxDone) ==
    /\ cpc[c] = "idle"
    /\ cop' = [cop EXCEPT ![c] = "call"]
    /\ ConnCallEnter(c, id, ctxDone)
    /\ UNCHANGED <<auxVars, connVars, loopVars, slot, cgot>>

\* The generic Call up to its call of conn.Call: its own select returns the
\* context's error when the context is done; else id.Add(1) gives the ID.
GenericCall(c, ctxDone) ==
    /\ cpc[c] = "idle"
    /\ cop' = [cop EXCEPT ![c] = "gcall"]
    /\ IF ctxDone
       THEN /\ Return(c, "ctxErr")
            /\ UNCHANGED <<idctr, cid>>
       ELSE /\ idctr' = Add(idctr)
            /\ cid' = [cid EXCEPT ![c] = NewID(idctr')]
            /\ cpc' = [cpc EXCEPT ![c] = "enter"]
            /\ cres' = cres
    /\ UNCHANGED <<auxVars, closed, tclosed, mutex, pending, handlers, loopVars, slot, cgot>>

\* The generic Call's conn.Call(ctx, NewID(int(id)), ...): Conn.Call's entry
\* select reads the context again, and c.closed, with the ID already taken
\* from the counter.
GenericConnCall(c, ctxDone) ==
    /\ cpc[c] = "enter"
    /\ ConnCallEnter(c, cid[c], ctxDone)
    /\ UNCHANGED <<auxVars, connVars, loopVars, cop, slot, cgot>>

\* Conn.Call: respCh is made and registered under the mutex, then
\* transport.Send(b) starts, outside the mutex.
CallRegister(c) ==
    /\ cpc[c] = "lock"
    /\ mutex = "free"
    /\ pending' = Register(pending, cid[c], c)
    /\ cpc' = [cpc EXCEPT ![c] = "sending"]
    /\ UNCHANGED <<auxVars, closed, tclosed, mutex, handlers, idctr, loopVars,
                   cop, cid, slot, cgot, cres>>

\* Conn.Call: transport.Send(b) returns.
CallSendReturns(c, ok) ==
    /\ cpc[c] = "sending"
    /\ ok \in SendResults
    /\ cpc' = [cpc EXCEPT ![c] = IF ok THEN "wait" ELSE "unregister"]
    /\ UNCHANGED <<auxVars, connVars, loopVars, cop, cid, slot, cgot, cres>>

\* Conn.Call after a failed Send: delete(c.pending, id) under the mutex.
SendFailedDelete(p, id) == Delete(p, id)

CallSendFailed(c) ==
    /\ cpc[c] = "unregister"
    /\ mutex = "free"
    /\ pending' = SendFailedDelete(pending, cid[c])
    /\ Return(c, "sendErr")
    /\ UNCHANGED <<auxVars, closed, tclosed, mutex, handlers, idctr, loopVars,
                   cop, cid, slot, cgot>>

\* Conn.Call's final select, case resp := <-respCh.
CallReceives(c) ==
    /\ cpc[c] = "wait"
    /\ slot[c] # NoMsg
    /\ cgot' = [cgot EXCEPT ![c] = slot[c]]
    /\ slot' = [slot EXCEPT ![c] = NoMsg]
    /\ Return(c, "response")
    /\ UNCHANGED <<auxVars, connVars, loopVars, cop, cid>>

\* Conn.Call's final select, case <-ctx.Done(): the context is done and the
\* select takes this case; the mutex is not taken yet.
CallCtxDone(c) ==
    /\ cpc[c] = "wait"
    /\ cpc' = [cpc EXCEPT ![c] = "cancel"]
    /\ UNCHANGED <<auxVars, connVars, loopVars, cop, cid, slot, cgot, cres>>

\* Mutant of CancelDelete: the cancellation path forgets the entry.
CancelDeleteSkipped(p, id) == p

\* Conn.Call after ctx.Done(): delete(c.pending, id) under the mutex.
CancelDelete(p, id) == Delete(p, id)

CallCancelled(c) ==
    /\ cpc[c] = "cancel"
    /\ mutex = "free"
    /\ pending' = CancelDelete(pending, cid[c])
    /\ Return(c, "ctxErr")
    /\ UNCHANGED <<auxVars, closed, tclosed, mutex, handlers, idctr, loopVars,
                   cop, cid, slot, cgot>>

\* Response.tuple: the error of the response when its Code is not 0, else nil.
\* The result goes with either.
tuple(resp) ==
    IF resp.ecode # 0 THEN [err |-> TRUE, code |-> resp.ecode]
    ELSE [err |-> FALSE, code |-> 0]

\* What the generic Call returns as its error: Conn.Call's error if it has
\* one, else that of result.tuple().
GenericCallError(c) ==
    IF cres[c] = "response" THEN tuple(cgot[c]) ELSE [err |-> TRUE, code |-> 0]

\* ------------------------------------------------------------------ Notify
\* Mutant of Notify: it registers a channel for itself, as a Call does.
NotifyRegistering(c, ctxDone) ==
    /\ cpc[c] = "idle"
    /\ cop' = [cop EXCEPT ![c] = "notify"]
    /\ IF ctxDone THEN Return(c, "ctxErr") /\ pending' = pending
       ELSE /\ cpc' = [cpc EXCEPT ![c] = "nsending"]
            /\ cres' = cres
            /\ pending' = Register(pending, NullID, c)
    /\ UNCHANGED <<auxVars, closed, tclosed, mutex, handlers, idctr, loopVars, cid, slot, cgot>>

\* Notify: the context check, then conn.transport.Send(b) starts; no mutex.
Notify(c, ctxDone) ==
    /\ cpc[c] = "idle"
    /\ cop' = [cop EXCEPT ![c] = "notify"]
    /\ IF ctxDone THEN Return(c, "ctxErr")
       ELSE /\ cpc' = [cpc EXCEPT ![c] = "nsending"]
            /\ cres' = cres
    /\ UNCHANGED <<auxVars, connVars, loopVars, cid, slot, cgot>>

\* Notify: transport.Send(b) returns and with it Notify.
NotifySendReturns(c, ok) ==
    /\ cpc[c] = "nsending"
    /\ ok \in SendResults
    /\ Return(c, IF ok THEN "ok" ELSE "sendErr")
    /\ UNCHANGED <<auxVars, connVars, loopVars, cop, cid, slot, cgot>>

\* ------------------------------------------------------------------ Close
\* Conn.Close on a connection that is not closed: close(c.closed).
CloseBegin ==
    /\ ~closed
    /\ closed' = TRUE
    /\ UNCHANGED <<auxVars, tclosed, mutex, pending, handlers, idctr, callVars, loopVars>>

\* Conn.Close: c.transport.Close(), after which Close returns.
CloseTransport ==
    /\ closed
    /\ ~tclosed
    /\ tclosed' = TRUE
    /\ UNCHANGED <<auxVars, closed, mutex, pending, handlers, idctr, callVars, loopVars>>

\* Conn.Close called by several goroutines.  Close does not take the mutex:
\* its select on c.closed, close(c.closed) and c.transport.Close() are three
\* steps, and another Close may run between any two of them.

\* Close's select: a closed c.closed makes Close return nil, else the default
\* case is taken.
CloseSelect(k) ==
    /\ kpc[k] = "idle"
    /\ kpc' = [kpc EXCEPT ![k] = IF closed THEN "nil" ELSE "closing"]
    /\ UNCHANGED <<connVars, callVars, loopVars, lopen, lidx, lresp, funVars, rpc, pipeVars, muxVars, sseVars>>

\* close(c.closed) in the default case: closing a closed channel panics.
CloseChan(k) ==
    /\ kpc[k] = "closing"
    /\ IF closed THEN /\ kpc' = [kpc EXCEPT ![k] = "panic"]
                      /\ closed' = closed
       ELSE /\ kpc' = [kpc EXCEPT ![k] = "tclosing"]
            /\ closed' = TRUE
    /\ UNCHANGED <<tclosed, mutex, pending, handlers, idctr, callVars, loopVars,
                   lopen, lidx, lresp, funVars, rpc, pipeVars, muxVars, sseVars>>

\* return c.transport.Close()
CloseReturns(k) ==
    /\ kpc[k] = "tclosing"
    /\ kpc' = [kpc EXCEPT ![k] = "done"]
    /\ tclosed' = TRUE
    /\ UNCHANGED <<closed, mutex, pending, handlers, idctr, callVars, loopVars,
                   lopen, lidx, lresp, funVars, rpc, pipeVars, muxVars, sseVars>>

\* ------------------------------------------------------------------ RegisterHandler
\* RegisterHandler(c, method, h) is the assignment c.handlers[method] = ...,
\* made without c.mutex.  A map assignment is not atomic: it begins, and it
\* ends with the entry in place.
RegisterBegin(k, method) ==
    /\ rpc[k].pc = "idle"
    /\ rpc' = [rpc EXCEPT ![k] = [pc |-> "writing", method |-> method]]
    /\ UNCHANGED <<connVars, callVars, loopVars, lopen, lidx, lresp, kpc, funVars, pipeVars, muxVars, sseVars>>

\* The Go runtime finds a map accessed by two goroutines at once, one of them
\* writing, and stops the program with a fatal error: the goroutines that
\* register handlers and the loop all stop where they are.
Fatal ==
    /\ rpc' = [k \in Registrars |-> [rpc[k] EXCEPT !.pc = "fatal"]]
    /\ lpc' = "fatal"
    /\ UNCHANGED <<lmsg, lsnd, lout, lch, lerr>>

\* The assignment ends.  When another assignment to the same map is under way
\* the runtime may stop the program ("concurrent map writes"); otherwise, and
\* also then, the entry is in place.
RegisterEnd(k) ==
    /\ rpc[k].pc = "writing"
    /\ \/ /\ handlers' = handlers \cup {rpc[k].method}
          /\ rpc' = [rpc EXCEPT ![k].pc = "done"]
          /\ UNCHANGED <<lpc, lmsg, lsnd, lout, lch, lerr>>
       \/ /\ \E j \in Registrars \ {k} : rpc[j].pc = "writing"
          /\ handlers' = handlers
          /\ Fatal
    /\ UNCHANGED <<closed, tclosed, mutex, pending, idctr, callVars, lctx,
                   lopen, lidx, lresp, kpc, funVars, pipeVars, muxVars, sseVars>>

\* ------------------------------------------------------------------ pipe
\* Two connections joined by NewPipe: each side's Generic transport writes into
\* an io.Pipe that the other side's json.Decoder reads.  A Write on an io.Pipe
\* returns when a Read has taken its bytes, and the other side reads only
\* inside Receive, between two messages of its loop.  Generic.Send is two
\* Writes, the message and then a newline.  who is the task that writes, 0 for
\* the loop; id is the ID of the request or response written, 0 for a newline.
PipeWrite(who, data, id) == [who |-> who, data |-> data, id |-> id]

PipeWrites ==
    { PipeWrite(who, data, id) :
        who \in PipeTasks \cup {0}, data \in {"request", "response", "nl"},
        id \in PipeTasks \cup {0} }

connOnly == <<connVars, callVars, loopVars, lopen, lidx, lresp, kpc, funVars, rpc, muxVars, sseVars>>

\* Task t on side s makes a Call to the other side, with an ID of its own: the
\* entry select and the registration, Lock; c.pending[id] = respCh; Unlock.
PipeCall(s, t) ==
    /\ qpc[s][t] = "idle"
    /\ qmutex[s] = "free"
    /\ qpend' = [qpend EXCEPT ![s] = @ \cup {t}]
    /\ qpc' = [qpc EXCEPT ![s][t] = "registered"]
    /\ UNCHANGED <<connOnly, qloop, qreq, qslot, qmutex, qpipe>>

\* transport.Send(b) of who on side s begins: its first Write, of the message,
\* enters the pipe and blocks.  A task's Conn.Call sends its request outside
\* the mutex; the loop's sendResponse sends its response inside.
PipeSendBegins(s, who) ==
    /\ IF who = 0
       THEN /\ qloop[s] = "locked"
            /\ qloop' = [qloop EXCEPT ![s] = "send"]
            /\ qpipe' = [qpipe EXCEPT ![s] = @ \cup {PipeWrite(0, "response", qreq[s])}]
            /\ qreq' = [qreq EXCEPT ![s] = 0]
            /\ qpc' = qpc
       ELSE /\ qpc[s][who] = "registered"
            /\ qpc' = [qpc EXCEPT ![s][who] = "send"]
            /\ qpipe' = [qpipe EXCEPT ![s] = @ \cup {PipeWrite(who, "request", who)}]
            /\ UNCHANGED <<qloop, qreq>>
    /\ UNCHANGED <<connOnly, qpend, qslot, qmutex>>

\* The loop of side s, in Receive, reads the bytes of the Write w of the other
\* side; the writer goes on in a step of its own.  A newline is skipped by the
\* decoder.  A request is given to its handler.  A response is looked up in
\* c.pending under the mutex and, if found, removed: the loop goes on to put
\* it into the channel found; if not found handleResponse returns an error,
\* which handleMessage drops.
PipeRead(s, w) ==
    /\ qloop[s] = "recv"
    /\ w \in qpipe[Peer(s)]
    /\ qpipe' = [qpipe EXCEPT ![Peer(s)] = @ \ {w}]
    /\ IF w.data = "request"
       THEN /\ qloop' = [qloop EXCEPT ![s] = "handler"]
            /\ qreq' = [qreq EXCEPT ![s] = w.id]
            /\ UNCHANGED qpend
       ELSE IF w.data = "response"
       THEN /\ qmutex[s] = "free"
            /\ qpend' = [qpend EXCEPT ![s] = @ \ {w.id}]
            /\ IF w.id \in qpend[s]
               THEN /\ qloop' = [qloop EXCEPT ![s] = "deliver"]
                    /\ qreq' = [qreq EXCEPT ![s] = w.id]
               ELSE UNCHANGED <<qloop, qreq>>
       ELSE UNCHANGED <<qloop, qreq, qpend>>
    /\ UNCHANGED <<connOnly, qpc, qslot, qmutex>>

\* handleResponse's select, case ch <- msg, after the mutex was released: the
\* channel's buffer is free, and the loop's context is never done.
PipeDeliver(s) ==
    /\ qloop[s] = "deliver"
    /\ qslot' = [qslot EXCEPT ![s] = @ \cup {qreq[s]}]
    /\ qloop' = [qloop EXCEPT ![s] = "recv"]
    /\ qreq' = [qreq EXCEPT ![s] = 0]
    /\ UNCHANGED <<connOnly, qpc, qpend, qmutex, qpipe>>

\* Generic.Send of who on side s: its Write of the message has been read and
\* returns, and its Write of the newline enters the pipe and blocks.
PipeWriteReturns(s, who) ==
    /\ \A w \in qpipe[s] : w.who # who
    /\ IF who = 0
       THEN /\ qloop[s] = "send"
            /\ qloop' = [qloop EXCEPT ![s] = "sendnl"]
            /\ qpc' = qpc
       ELSE /\ qpc[s][who] = "send"
            /\ qpc' = [qpc EXCEPT ![s][who] = "sendnl"]
            /\ qloop' = qloop
    /\ qpipe' = [qpipe EXCEPT ![s] = @ \cup {PipeWrite(who, "nl", 0)}]
    /\ UNCHANGED <<connOnly, qreq, qpend, qslot, qmutex>>

\* Generic.Send of who on side s: its Write of the newline has been read and
\* returns, and with it Send.  A task goes on to wait for its response; the
\* loop runs the deferred Unlock and is back in Receive.
PipeSendReturns(s, who) ==
    /\ \A w \in qpipe[s] : w.who # who
    /\ IF who = 0
       THEN /\ qloop[s] = "sendnl"
            /\ qloop' = [qloop EXCEPT ![s] = "recv"]
            /\ qmutex' = [qmutex EXCEPT ![s] = "free"]
            /\ qpc' = qpc
       ELSE /\ qpc[s][who] = "sendnl"
            /\ qpc' = [qpc EXCEPT ![s][who] = "wait"]
            /\ UNCHANGED <<qloop, qmutex>>
    /\ UNCHANGED <<connOnly, qreq, qpend, qslot, qpipe>>

\* The handler of side s returns its result: sendResponse locks the mutex.
PipeHandlerReturns(s) ==
    /\ qloop[s] = "handler"
    /\ qmutex[s] = "free"
    /\ qmutex' = [qmutex EXCEPT ![s] = "loop"]
    /\ qloop' = [qloop EXCEPT ![s] = "locked"]
    /\ UNCHANGED <<connOnly, qpc, qreq, qpend, qslot, qpipe>>

\* Conn.Call's final select, case resp := <-respCh.
PipeCallReceives(s, t) ==
    /\ qpc[s][t] = "wait"
    /\ t \in qslot[s]
    /\ qslot' = [qslot EXCEPT ![s] = @ \ {t}]
    /\ qpc' = [qpc EXCEPT ![s][t] = "done"]
    /\ UNCHANGED <<connOnly, qloop, qreq, qpend, qmutex, qpipe>>

\* Conn.Call's final select takes case <-ctx.Done(): the Call goes on to
\* c.mutex.Lock() and can no longer take a response.
PipeCallCtxDone(s, t) ==
    /\ qpc[s][t] = "wait"
    /\ qpc' = [qpc EXCEPT ![s][t] = "cancel"]
    /\ UNCHANGED <<connOnly, qloop, qreq, qpend, qslot, qmutex, qpipe>>

\* Conn.Call after ctx.Done(): the entry is deleted under the mutex and the
\* Call returns the context's error.
PipeCallCancelled(s, t) ==
    /\ qpc[s][t] = "cancel"
    /\ qmutex[s] = "free"
    /\ qpend' = [qpend EXCEPT ![s] = @ \ {t}]
    /\ qpc' = [qpc EXCEPT ![s][t] = "cancelled"]
    /\ UNCHANGED <<connOnly, qloop, qreq, qslot, qmutex, qpipe>>

\* ------------------------------------------------------------------ serve
\* What the loop does with its own variables; every loop action ends in one.
LoopTo(pc, msg, snd, out, ch, err) ==
    /\ lpc' = pc
    /\ lmsg' = msg
    /\ lsnd' = snd
    /\ lout' = out
    /\ lch' = ch
    /\ lerr' = err

\* handleMessage has returned nil: the loop is back in transport.Receive().
\* lmsg and lout keep the message just handled and what was sent for it, until
\* the next message is taken or serve returns for another reason.
Handled(msg, out) ==
    /\ LoopTo("recv", msg, NoReply, out, 0, "none")
    /\ UNCHANGED <<mutex, pending, slot>>

\* serve has returned err.
Returned(msg, out, err) == LoopTo("returned", msg, NoReply, out, 0, err)

\* c.mutex.Lock() by the loop, then transport.Send(b) starts.  The mutex is
\* free whenever the loop asks for it: the other critical sections are single
\* steps.
StartSend(msg, reply) ==
    /\ mutex = "free"
    /\ mutex' = "serve"
    /\ LoopTo("send", msg, reply, <<reply>>, 0, "none")
    /\ UNCHANGED <<pending, slot>>

\* sendResponse / sendError: the context check, the null-ID check, then the
\* locked Send of the marshalled Response.
sendReply(msg, reply) ==
    IF lctx \/ IsNull(reply.id) THEN Handled(msg, << >>) ELSE StartSend(msg, reply)

\* The Response that handleRequest has sent for a request with the given ID
\* whose handler returned h: sendResponse's for a result, sendError's, made by
\* convertError, for an error.
RequestReply(id, h) ==
    IF h \in {"result", "nil"} THEN Response(id, h = "result", FALSE, 0)
    ELSE Response(id, FALSE, h # "zeroError", convertError(h))

\* sendResponse(ctx, id, resp) for the handler's result.
sendResponse(msg, id, h) == sendReply(msg, RequestReply(id, h))

\* sendError(ctx, id, err) for the handler's error.
sendError(msg, id, h) == sendReply(msg, RequestReply(id, h))

\* handleRequest up to the handler's invocation, or to the call of sendError
\* for a method without a handler.  Its select reads the context again: when
\* the context has become done since serve's select, it returns the context's
\* error, which handleMessage drops.
handleRequest(msg) ==
    IF lctx \/ ~UnmarshalOk(msg) THEN Handled(msg, << >>)
    ELSE IF msg.method \notin handlers
         THEN /\ LoopTo("sendError", msg, Reply(UnmarshalID(msg.id), CodeMethodNotFound),
                        << >>, 0, "none")
              /\ UNCHANGED <<mutex, pending, slot>>
         ELSE /\ LoopTo("handler", msg, NoReply, << >>, 0, "none")
              /\ UNCHANGED <<mutex, pending, slot>>

\* Mutant of handleNotification: a notification is answered.
handleNotificationAnswering(msg) == StartSend(msg, Reply(NullID, CodeMethodNotFound))

\* handleNotification up to the handler's invocation.
handleNotification(msg) ==
    IF ~UnmarshalOk(msg) \/ msg.method \notin handlers THEN Handled(msg, << >>)
    ELSE /\ LoopTo("handler", msg, NoReply, << >>, 0, "none")
         /\ UNCHANGED <<mutex, pending, slot>>

\* Mutant of Lookup: the response goes to some pending Call, whatever its id.
LookupAnyPending(p, id) == IF DOMAIN p = {} THEN 0 ELSE p[CHOOSE i \in DOMAIN p : TRUE]

\* handleResponse's critical section: ch, ok = c.pending[resp.ID]; ...
Lookup(p, id) == IF id \in DOMAIN p THEN p[id] ELSE 0

\* Mutant of TakeDelete: the entry stays in the table after the lookup.
TakeDeleteSkipped(p, id) == p

\* ... if ok, delete(c.pending, resp.ID).
TakeDelete(p, id) == Delete(p, id)

\* Mutant of handleResponse: a response without a pending entry is answered
\* with an error.
handleResponseAnswering(msg) ==
    IF lctx \/ ~UnmarshalOk(msg) THEN Handled(msg, << >>)
    ELSE LET id == UnmarshalID(msg.id)
             ch == Lookup(pending, id)
         IN  IF ch = 0 THEN StartSend(msg, Reply(id, CodeInvalidRequest))
             ELSE /\ mutex = "free"
                  /\ pending' = TakeDelete(pending, id)
                  /\ LoopTo("deliver", msg, NoReply, << >>, ch, "none")
                  /\ UNCHANGED <<mutex, slot>>

\* Mutant of handleResponse: the entry found is left in the pending table.
handleResponseKeepingEntry(msg) ==
    IF lctx \/ ~UnmarshalOk(msg) THEN Handled(msg, << >>)
    ELSE LET id == UnmarshalID(msg.id)
             ch == Lookup(pending, id)
         IN  IF ch = 0 THEN Handled(msg, << >>)
             ELSE /\ mutex = "free"
                  /\ LoopTo("deliver", msg, NoReply, << >>, ch, "none")
                  /\ UNCHANGED <<mutex, pending, slot>>

\* handleResponse up to the select that puts msg into ch.  Its first select
\* reads the context again: when the context has become done since serve's
\* select, it returns before the critical section, and the entry stays.
handleResponse(msg) ==
    IF lctx \/ ~UnmarshalOk(msg) THEN Handled(msg, << >>)
    ELSE LET id == UnmarshalID(msg.id)
             ch == Lookup(pending, id)
         IN  IF ch = 0 THEN Handled(msg, << >>)
             ELSE /\ mutex = "free"
                  /\ pending' = TakeDelete(pending, id)
                  /\ LoopTo("deliver", msg, NoReply, << >>, ch, "none")
                  /\ UNCHANGED <<mutex, slot>>

\* handleRawMessage: dispatch on the classifier; its error is dropped by
\* handleMessage.
handleRawMessage(msg) ==
    LET t == getMessageType(msg)
    IN  IF t = "request" THEN handleRequest(msg)
        ELSE IF t = "response" THEN handleResponse(msg)
        ELSE IF t = "notification" THEN handleNotification(msg)
        ELSE Handled(msg, << >>)

\* handleBatchMessage's reply element for a request whose handler returned h.
\* An error becomes generateErrorResponse(req.ID, CodeInternalError,
\* err.Error()); a result is put in a Response value that json.Marshal gets by
\* value, so that Response.MarshalJSON, declared on the pointer, is not used.
BatchElementReply(e, h) ==
    IF h \in {"result", "nil"}
    THEN [Response(UnmarshalID(e.id), h = "result", FALSE, 0) EXCEPT !.ver = FALSE]
    ELSE Reply(UnmarshalID(e.id), CodeInternalError)

RECURSIVE BatchRun(_, _, _)
\* The for loop of handleBatchMessage from element i+1 on, with resp collected
\* so far, up to the next invocation of a handler (call, for element idx) or
\* the end of the batch.  Responses in a batch are skipped.
BatchRun(items, i, resp) ==
    IF i = Len(items) THEN [idx |-> i, resp |-> resp, call |-> FALSE]
    ELSE LET e == items[i + 1]
             t == getMessageType(e)
         IN  IF t = "invalid"
             THEN BatchRun(items, i + 1, Append(resp, Reply(NullID, CodeInvalidRequest)))
             ELSE IF t = "request"
             THEN IF ~UnmarshalOk(e)
                  THEN BatchRun(items, i + 1, Append(resp, Reply(NullID, CodeParseError)))
                  ELSE IF e.method \notin handlers
                  THEN BatchRun(items, i + 1,
                                Append(resp, Reply(UnmarshalID(e.id), CodeMethodNotFound)))
                  ELSE [idx |-> i + 1, resp |-> resp, call |-> TRUE]
             ELSE IF t = "notification" /\ UnmarshalOk(e) /\ e.method \in handlers
             THEN [idx |-> i + 1, resp |-> resp, call |-> TRUE]
             ELSE BatchRun(items, i + 1, resp)

\* handleBatchMessage goes on from element i+1: to the next handler, or to its
\* end, where it sends the array of responses under the mutex if there is any.
BatchGoOn(msg, i, resp) ==
    LET r == BatchRun(msg.items, i, resp)
    IN  IF r.call
        THEN /\ LoopTo("bhandler", msg, NoReply, << >>, 0, "none")
             /\ lidx' = r.idx
             /\ lresp' = r.resp
             /\ UNCHANGED <<mutex, pending, slot>>
        ELSE /\ lidx' = 0
             /\ lresp' = << >>
             /\ IF r.resp = << >> THEN Handled(msg, << >>)
                ELSE StartSend(msg, BatchReply(r.resp))

\* handleBatchMessage: an empty batch is answered with one InvalidRequest
\* response, sent under the mutex.
handleBatchMessage(msg) ==
    IF msg.items = << >>
    THEN /\ lidx' = 0
         /\ lresp' = << >>
         /\ StartSend(msg, Reply(NullID, CodeInvalidRequest))
    ELSE BatchGoOn(msg, 0, << >>)

\* handleMessage: an array goes to handleBatchMessage, whose result is
\* handleMessage's; a message that does not decode into an object is answered
\* with a ParseError reply under the mutex, and the result of that Send is
\* handleMessage's; any other goes to handleRawMessage, whose error is dropped.
handleMessage(msg) ==
    IF msg.shape = "batch" THEN handleBatchMessage(msg)
    ELSE /\ UNCHANGED <<lidx, lresp>>
         /\ IF msg.shape = "junk" THEN StartSend(msg, Reply(NullID, CodeParseError))
            ELSE handleRawMessage(msg)

\* Serve / Open followed by serve's entry: the same select twice, nothing
\* blocking in between.
Serve ==
    /\ lpc = "init"
    /\ \E s \in Select(lctx, closed) :
         IF s = "default" THEN LoopTo("recv", NoMsg, NoReply, << >>, 0, "none")
         ELSE Returned(NoMsg, << >>, s)
    /\ UNCHANGED <<auxVars, connVars, callVars, lctx>>

\* Open: the select on c.closed; when the connection is not closed it starts
\* serve(context.Background()) in a new goroutine and returns nil.
Open ==
    /\ lpc = "init"
    /\ ~lctx
    /\ lopen' = TRUE
    /\ IF closed THEN Returned(NoMsg, << >>, "openClosed")
       ELSE LoopTo("spawned", NoMsg, NoReply, << >>, 0, "none")
    /\ UNCHANGED <<connVars, callVars, lctx, lidx, lresp, kpc, funVars, rpc, pipeVars, muxVars, sseVars>>

\* The goroutine started by Open enters serve: its entry select, with a context
\* that is never done.
OpenServe ==
    /\ lpc = "spawned"
    /\ \E s \in Select(FALSE, closed) :
         IF s = "default" THEN LoopTo("recv", NoMsg, NoReply, << >>, 0, "none")
         ELSE Returned(NoMsg, << >>, s)
    /\ UNCHANGED <<connVars, callVars, lctx, auxVars>>

\* Mutant of ServeMessage: the next message is taken while the handler of the
\* last one is still running.
ServeMessageWhileHandling(msg) ==
    /\ lpc \in {"recv", "handler"}
    /\ \E s \in Select(lctx, closed) :
         IF s = "default" THEN LoopTo("handle", msg, NoReply, << >>, 0, "none")
         ELSE Returned(NoMsg, << >>, s)
    /\ UNCHANGED <<mutex, pending, slot, lidx, lresp>>
    /\ UNCHANGED <<lopen, kpc, funVars, rpc, pipeVars, muxVars, sseVars, closed, tclosed, handlers, idctr,
                   cpc, cop, cid, cgot, cres, lctx>>

\* One iteration of serve's loop begins: Receive yields msg, and the select
\* returns or calls handleMessage.  Receive may yield after transport.Close()
\* too: Generic.Close closes the reader only when it is an io.Closer, and the
\* json.Decoder may hold messages it has read already.
ServeMessage(msg) ==
    /\ lpc = "recv"
    /\ \E s \in Select(lctx, closed) :
         IF s = "default" THEN LoopTo("handle", msg, NoReply, << >>, 0, "none")
         ELSE Returned(NoMsg, << >>, s)
    /\ UNCHANGED <<mutex, pending, slot, lidx, lresp>>
    /\ UNCHANGED <<lopen, kpc, funVars, rpc, pipeVars, muxVars, sseVars, closed, tclosed, handlers, idctr,
                   cpc, cop, cid, cgot, cres, lctx>>

\* handleMessage(ctx, msg) for the message taken, up to its first blocking
\* point or to its return.  The context may have become done since serve's
\* select: handleRequest and handleResponse read it again.
ServeHandles ==
    /\ lpc = "handle"
    /\ handleMessage(lmsg)
    /\ UNCHANGED <<lopen, kpc, funVars, rpc, pipeVars, muxVars, sseVars, closed, tclosed, handlers, idctr,
                   cpc, cop, cid, cgot, cres, lctx>>

\* handleRequest's sendError for a method without a handler: the select on
\* the context, read once more, the null-ID check, then the locked Send.
SendMethodNotFound ==
    /\ lpc = "sendError"
    /\ sendReply(lmsg, lsnd)
    /\ UNCHANGED <<auxVars, closed, tclosed, handlers, idctr, cpc, cop, cid, cgot, cres, lctx>>

\* handleMessage for a request or a notification, when the lookup
\* c.handlers[req.Method] of handleRequest or handleNotification, made
\* without c.mutex, runs while an assignment of RegisterHandler to the same
\* map is under way: the runtime may stop the program ("concurrent map read
\* and map write").  When it does not, the step is ServeHandles'.
HandlerLookupFatal ==
    /\ lpc = "handle"
    /\ lmsg.shape = "obj"
    /\ getMessageType(lmsg) \in {"request", "notification"}
    /\ getMessageType(lmsg) = "request" => ~lctx
    /\ UnmarshalOk(lmsg)
    /\ \E k \in Registrars : rpc[k].pc = "writing"
    /\ Fatal
    /\ UNCHANGED <<connVars, callVars, lctx, lopen, lidx, lresp, kpc, funVars,
                   pipeVars, muxVars, sseVars>>

\* The receive sequence ends (the reader was closed, or the peer hung up):
\* serve returns "connection closed".
ServeEnds ==
    /\ lpc = "recv"
    /\ Returned(NoMsg, << >>, "closed")
    /\ UNCHANGED <<auxVars, connVars, callVars, lctx>>

\* The handler returns h: nothing more for a notification; for a request
\* sendResponse, or sendError when h is an error.
HandlerReturns(h) ==
    /\ lpc = "handler"
    /\ IF getMessageType(lmsg) = "notification" THEN Handled(lmsg, << >>)
       ELSE IF h \in {"result", "nil"} THEN sendResponse(lmsg, UnmarshalID(lmsg.id), h)
       ELSE sendError(lmsg, UnmarshalID(lmsg.id), h)
    /\ UNCHANGED <<auxVars, closed, tclosed, handlers, idctr, cpc, cop, cid, cgot, cres, lctx>>

\* A handler invoked by handleBatchMessage returns h: for a request its reply
\* is appended to the responses, for a notification nothing is; the loop over
\* the batch goes on.
BatchHandlerReturns(h) ==
    /\ lpc = "bhandler"
    /\ LET e == lmsg.items[lidx]
       IN  BatchGoOn(lmsg, lidx,
                     IF getMessageType(e) = "request"
                     THEN Append(lresp, BatchElementReply(e, h))
                     ELSE lresp)
    /\ UNCHANGED <<closed, tclosed, handlers, idctr, callVars, lctx, lopen, kpc, funVars, rpc, pipeVars, muxVars, sseVars>>

\* The loop's transport.Send returns and the deferred Unlock runs.  The
\* ParseError path and the batch path hand Send's error to serve, which
\* returns it.
SendReturns(ok) ==
    /\ lpc = "send"
    /\ ok \in SendResults
    /\ mutex' = "free"
    /\ IF ~ok /\ lmsg.shape \in {"junk", "batch"} THEN Returned(lmsg, lout, "send")
       ELSE LoopTo("recv", lmsg, NoReply, lout, 0, "none")
    /\ UNCHANGED <<auxVars, closed, tclosed, pending, handlers, idctr, callVars, lctx>>

\* handleResponse's select { case ch <- msg; case <-ctx.Done() }: the send is
\* ready when the channel's buffer is free.
Deliver ==
    /\ lpc = "deliver"
    /\ \/ /\ slot[lch] = NoMsg
          /\ slot' = [slot EXCEPT ![lch] = lmsg]
       \/ /\ lctx
          /\ slot' = slot
    /\ LoopTo("recv", lmsg, NoReply, << >>, 0, "none")
    /\ UNCHANGED <<auxVars, connVars, cpc, cop, cid, cgot, cres, lctx>>

\* The context given to Serve is cancelled.
CancelServeCtx ==
    /\ lpc # "returned"
    /\ ~lctx
    /\ ~lopen
    /\ lctx' = TRUE
    /\ UNCHANGED <<auxVars, connVars, callVars, lpc, lmsg, lsnd, lout, lch, lerr>>

\* ------------------------------------------------------------------ router
\* Package router.  A string is a sequence of characters.  A URI given to
\* Handle or Execute is described by its parts: whether it holds "://", the
\* text before it, the text up to the first "/" after it, the texts between
\* the slashes of the path (an empty one stands for "//"), and the key=value
\* pairs of the query in the order written.
URI(scheme, host, path, query) ==
    [sep |-> TRUE, scheme |-> scheme, host |-> host, path |-> path, query |-> query]

\* strings.ToLower, on the letters used here.
LowerCh(c) ==
    IF c = "H" THEN "h" ELSE IF c = "A" THEN "a" ELSE IF c = "B" THEN "b" ELSE c

ToLower(str) == [i \in 1..Len(str) |-> LowerCh(str[i])]

\* strings.Index for a single character: the first position, from 1; 0 where
\* Go returns -1.
Index(str, c) ==
    IF \E i \in 1..Len(str) : str[i] = c
    THEN CHOOSE i \in 1..Len(str) : str[i] = c /\ \A j \in 1..(i - 1) : str[j] # c
    ELSE 0

HasPrefix(str, pre) == Len(pre) <= Len(str) /\ SubSeq(str, 1, Len(pre)) = pre

HasSuffix(str, suf) ==
    Len(suf) <= Len(str) /\ SubSeq(str, Len(str) - Len(suf) + 1, Len(str)) = suf

\* isValidParamName: not empty, letters, digits, "_" and "-" only.
NameChars ==
    {"a", "b", "c", "d", "e", "f", "g", "h", "i", "j", "k", "l", "m",
     "n", "o", "p", "q", "r", "s", "t", "u", "v", "w", "x", "y", "z",
     "A", "B", "C", "D", "E", "F", "G", "H", "I", "J", "K", "L", "M",
     "N", "O", "P", "Q", "R", "S", "T", "U", "V", "W", "X", "Y", "Z",
     "0", "1", "2", "3", "4", "5", "6", "7", "8", "9", "_", "-"}

isValidParamName(name) == name # << >> /\ \A i \in 1..Len(name) : name[i] \in NameChars

\* The segments kept by parsePath and parsePathForRequest: the empty ones, left
\* by consecutive or trailing slashes, are dropped.
NonEmpty(seg) == seg # << >>

IsParamSegment(seg) == HasPrefix(seg, <<"{">>) /\ HasSuffix(seg, <<"}">>)

\* parsePath's pathSegment for a kept segment.
PathSegment(seg) ==
    IF IsParamSegment(seg)
    THEN [isParam |-> TRUE, paramName |-> SubSeq(seg, 2, Len(seg) - 1), literal |-> << >>]
    ELSE [isParam |-> FALSE, paramName |-> << >>, literal |-> seg]

parsePath(path) ==
    LET segs == SelectSeq(path, NonEmpty)
    IN  [err |-> \E i \in 1..Len(segs) :
                    IsParamSegment(segs[i]) /\ ~isValidParamName(PathSegment(segs[i]).paramName),
         segs |-> [i \in 1..Len(segs) |-> PathSegment(segs[i])]]

parsePathForRequest(path) == SelectSeq(path, NonEmpty)

\* The keys of a query, and the map url.ParseQuery makes of it when no key is
\* written twice.
QueryKeys(q) == {q[i][1] : i \in 1..Len(q)}

QueryMap(q) == [k \in QueryKeys(q) |-> q[CHOOSE i \in 1..Len(q) : q[i][1] = k][2]]

\* parseQueryForRequest fails on an empty key and on a key written twice.
parseQueryForRequest(q) ==
    [err |-> \/ << >> \in QueryKeys(q)
             \/ \E i, j \in 1..Len(q) : i # j /\ q[i][1] = q[j][1],
     query |-> QueryMap(q)]

\* parseQueryForRegistration fails on a key in braces as well.
parseQueryForRegistration(q) ==
    [err |-> \/ parseQueryForRequest(q).err
             \/ \E k \in QueryKeys(q) : IsParamSegment(k),
     query |-> QueryMap(q)]

\* checkParamNameDuplication: a parameter name used twice in host and path.
checkParamNameDuplication(hostParamName, segs) ==
    \/ \E i \in 1..Len(segs) :
          segs[i].isParam /\ hostParamName # << >> /\ segs[i].paramName = hostParamName
    \/ \E i, j \in 1..Len(segs) :
          i < j /\ segs[i].isParam /\ segs[j].isParam /\ segs[i].paramName = segs[j].paramName

NoRoute ==
    [scheme |-> << >>, hostIsParam |-> FALSE, hostParamName |-> << >>, host |-> << >>,
     pathSegments |-> << >>, query |-> << >>, handler |-> 0]

\* parseRoute(uri, h): the route made of a URI, or an error.
parseRoute(u, h) ==
    LET start == Index(u.host, "{")
        end == Index(u.host, "}")
        hostIsParam == start # 0 /\ end # 0
        hostParamName == IF hostIsParam THEN SubSeq(u.host, start + 1, end - 1) ELSE << >>
        p == parsePath(u.path)
        q == parseQueryForRegistration(u.query)
        failed(e) == [err |-> e, route |-> NoRoute]
    IN  IF ~u.sep THEN failed("scheme")
        ELSE IF u.host = << >> THEN failed("host")
        ELSE IF hostIsParam /\ end <= start THEN failed("hostFormat")
        ELSE IF hostIsParam /\ ~isValidParamName(hostParamName) THEN failed("paramName")
        ELSE IF p.err THEN failed("paramName")
        ELSE IF q.err THEN failed("query")
        ELSE IF checkParamNameDuplication(hostParamName, p.segs) THEN failed("duplicated")
        ELSE [err |-> "none",
              route |-> [scheme |-> ToLower(u.scheme),
                         hostIsParam |-> hostIsParam,
                         hostParamName |-> hostParamName,
                         host |-> ToLower(u.host),
                         pathSegments |-> p.segs,
                         query |-> q.query,
                         handler |-> h]]

\* isSameCoverage(a, b)
isSameCoverage(a, b) ==
    /\ a.scheme = b.scheme
    /\ a.hostIsParam = b.hostIsParam
    /\ ~a.hostIsParam => a.host = b.host
    /\ Len(a.pathSegments) = Len(b.pathSegments)
    /\ \A i \in 1..Len(a.pathSegments) :
          /\ a.pathSegments[i].isParam = b.pathSegments[i].isParam
          /\ ~a.pathSegments[i].isParam => a.pathSegments[i].literal = b.pathSegments[i].literal
    /\ Cardinality(DOMAIN a.query) = Cardinality(DOMAIN b.query)
    /\ \A k \in DOMAIN a.query : k \in DOMAIN b.query /\ a.query[k] = b.query[k]

\* Mutant of checkConflict: only the route registered last is compared.
checkConflictLastOnly(rts, newRoute) ==
    rts # << >> /\ isSameCoverage(rts[Len(rts)], newRoute)

\* checkConflict: some registered route has the coverage of the new one.
checkConflict(rts, newRoute) == \E i \in 1..Len(rts) : isSameCoverage(rts[i], newRoute)

\* The routes a Mux holds at most in this model.
MaxRoutes == 3

\* Mux.Handle(uri, h): parseRoute, checkConflict, append.  The handler is named
\* by the position its route takes.
Handle(u) ==
    /\ Len(routes) < MaxRoutes
    /\ LET r == parseRoute(u, Len(routes) + 1)
           err == IF r.err # "none" THEN r.err
                  ELSE IF checkConflict(routes, r.route) THEN "conflict" ELSE "none"
       IN  /\ routes' = IF err = "none" THEN Append(routes, r.route) ELSE routes
           /\ mout' = [NoOutcome EXCEPT !.op = "handle", !.uri = u, !.err = err]
    /\ UNCHANGED <<connVars, callVars, loopVars, lopen, lidx, lresp, kpc, funVars, rpc, pipeVars,
                   notFoundHandler, sseVars>>

\* Mux.SetNotFoundHandler(h): h is a handler or nil.
SetNotFoundHandler(h) ==
    /\ notFoundHandler' = h
    /\ mout' = [NoOutcome EXCEPT !.op = "set"]
    /\ UNCHANGED <<connVars, callVars, loopVars, lopen, lidx, lresp, kpc, funVars, rpc, pipeVars,
                   routes, sseVars>>

\* parseRequest(rawURI)
parseRequest(u) ==
    LET q == parseQueryForRequest(u.query)
    IN  [err |-> IF ~u.sep THEN "scheme" ELSE IF u.host = << >> THEN "host"
                 ELSE IF q.err THEN "query" ELSE "none",
         scheme |-> ToLower(u.scheme),
         host |-> ToLower(u.host),
         pathSegs |-> parsePathForRequest(u.path),
         query |-> q.query]

\* The parameters matchRoute collects for a route: the host's and the path's.
MatchParams(rt, parsed, hostValue) ==
    LET idx == {i \in 1..Len(rt.pathSegments) : rt.pathSegments[i].isParam}
        names == {rt.pathSegments[i].paramName : i \in idx}
                 \cup (IF rt.hostIsParam THEN {rt.hostParamName} ELSE {})
    IN  [n \in names |->
            IF \E i \in idx : rt.pathSegments[i].paramName = n
            THEN parsed.pathSegs[CHOOSE i \in idx : rt.pathSegments[i].paramName = n]
            ELSE hostValue]

\* Mutant of queryMatches: a request key the route has not fails the match.
queryMatchesExact(routeQuery, requestQuery) ==
    /\ DOMAIN routeQuery = DOMAIN requestQuery
    /\ \A k \in DOMAIN routeQuery : requestQuery[k] = routeQuery[k]

\* matchRoute, 4) query: every key of the route is in the request with the
\* route's value.
queryMatches(routeQuery, requestQuery) ==
    \A k \in DOMAIN routeQuery : k \in DOMAIN requestQuery /\ requestQuery[k] = routeQuery[k]

\* Mutant of paramValue: the whole request host is the value.
paramValueWholeHost(requestHost, prefix, suffix) == requestHost

\* Mutant of paramValue: the template's suffix is left in the value.
paramValueKeepSuffix(requestHost, prefix, suffix) ==
    SubSeq(requestHost, Len(prefix) + 1, Len(requestHost))

\* paramValue := requestHost[len(prefix) : len(requestHost)-len(suffix)]
paramValue(requestHost, prefix, suffix) ==
    SubSeq(requestHost, Len(prefix) + 1, Len(requestHost) - Len(suffix))

\* matchRoute(rt, parsed).  fault: the slice expression
\* requestHost[len(prefix) : len(requestHost)-len(suffix)] is out of range,
\* which stops Execute with a run-time panic.
matchRoute(rt, parsed) ==
    LET start == Index(rt.host, "{")
        end == Index(rt.host, "}")
        prefix == SubSeq(rt.host, 1, start - 1)
        suffix == SubSeq(rt.host, end + 1, Len(rt.host))
        lo == Len(prefix)
        hi == Len(parsed.host) - Len(suffix)
        hostValue == paramValue(parsed.host, prefix, suffix)
        fits == HasPrefix(parsed.host, prefix) /\ HasSuffix(parsed.host, suffix)
        hostOk == IF rt.hostIsParam
                  THEN start # 0 /\ end # 0 /\ end > start /\ fits /\ hostValue # << >>
                  ELSE rt.host = parsed.host
        pathOk == /\ Len(rt.pathSegments) = Len(parsed.pathSegs)
                  /\ \A i \in 1..Len(rt.pathSegments) :
                        ~rt.pathSegments[i].isParam
                        => rt.pathSegments[i].literal = parsed.pathSegs[i]
        queryOk == queryMatches(rt.query, parsed.query)
        fault == /\ rt.scheme = parsed.scheme
                 /\ rt.hostIsParam /\ start # 0 /\ end # 0 /\ end > start /\ fits
                 /\ lo > hi
        match == ~fault /\ rt.scheme = parsed.scheme /\ hostOk /\ pathOk /\ queryOk
    IN  [fault |-> fault,
         match |-> match,
         params |-> IF match THEN MatchParams(rt, parsed, hostValue) ELSE << >>]

\* calcStaticScore(r): 1 for a fixed host, 1 for each fixed path segment.
calcStaticScore(r) ==
    (IF r.hostIsParam THEN 0 ELSE 1)
    + Cardinality({i \in 1..Len(r.pathSegments) : ~r.pathSegments[i].isParam})

\* The positions in the route table of the candidates Execute collects.
Candidates(rts, parsed) == {i \in 1..Len(rts) : matchRoute(rts[i], parsed).match}

\* pickBestMatch: the first candidate, in registration order, that no other
\* candidate outscores.
pickBestMatch(rts, cands) ==
    CHOOSE i \in cands :
        /\ \A j \in cands : calcStaticScore(rts[j]) <= calcStaticScore(rts[i])
        /\ \A j \in cands : j < i => calcStaticScore(rts[j]) < calcStaticScore(rts[i])

\* Mux.handleNotFound: the not-found handler is called with the request when
\* there is one ("notFoundHandler"), else ErrNotFound is returned.
handleNotFound(u, parsed) ==
    IF notFoundHandler
    THEN [NoOutcome EXCEPT !.op = "execute", !.uri = u, !.err = "notFoundHandler",
                           !.query = parsed.query]
    ELSE [NoOutcome EXCEPT !.op = "execute", !.uri = u, !.err = "ErrNotFound"]

\* Mux.Execute(ctx, rawURI): parseRequest, matchRoute on every route, then the
\* handler of the best candidate is called with the request's query and the
\* candidate's parameters.
Execute(u) ==
    /\ LET parsed == parseRequest(u)
           cands == Candidates(routes, parsed)
           best == pickBestMatch(routes, cands)
           out(e) == [NoOutcome EXCEPT !.op = "execute", !.uri = u, !.err = e]
       IN  mout' = IF parsed.err # "none" THEN out(parsed.err)
                   ELSE IF \E i \in 1..Len(routes) : matchRoute(routes[i], parsed).fault
                        THEN out("panic")
                   ELSE IF cands = {} THEN handleNotFound(u, parsed)
                   ELSE [op |-> "execute", uri |-> u, err |-> "none",
                         handler |-> routes[best].handler,
                         params |-> matchRoute(routes[best], parsed).params,
                         query |-> parsed.query]
    /\ UNCHANGED <<connVars, callVars, loopVars, lopen, lidx, lresp, kpc, funVars, rpc,
                   pipeVars, routes, notFoundHandler, sseVars>>

\* ------------------------------------------------------------------ SSE
\* The SSE transport with one session: made by the GET handler or by
\* NewSSESession, closed by SessionClosers, written to by one POST request and
\* by one caller of HandleMessage.
sseOnly == <<connVars, callVars, loopVars, lopen, lidx, lresp, kpc, funVars, rpc, pipeVars,
             muxVars>>

\* A run-time panic of the goroutine who: 0 is the GET request's, -1 the POST
\* request's, -2 the caller's of HandleMessage, the others are the callers of
\* Close.
Panic(who, what) == spanic' = spanic \cup {[who |-> who, what |-> what]}

\* NewSSESession(writer): a session with both channels made.
NewSSESession ==
    /\ gpc = "idle" /\ sch = "none"
    /\ sch' = "open" /\ sdone' = "open"
    /\ gpc' = "direct"
    /\ UNCHANGED <<sseOnly, stable, gctx, xpc, ppc, hpc, spanic>>

\* SSE.handleSSE up to the call of HandleSession: the session is made with ch
\* only (done stays nil), stored in s.sessions, and the endpoint event written.
SSEHandleGet ==
    /\ gpc = "idle" /\ sch = "none"
    /\ sch' = "open" /\ sdone' = "nil"
    /\ stable' = TRUE
    /\ gpc' = "handle"
    /\ UNCHANGED <<sseOnly, gctx, xpc, ppc, hpc, spanic>>

\* s.handler.HandleSession returns: with an error handleSSE answers 500 and
\* returns, else it goes on to its select.  A handler of this package may have
\* given the session a done channel that is closed, as the handler of the
\* package's tests does; any other handler leaves done nil.
SSEHandleSessionReturns(err, setsDone) ==
    /\ gpc = "handle"
    /\ gpc' = IF err THEN "returned" ELSE "select"
    /\ sdone' = IF setsDone /\ sdone = "nil" THEN "closed" ELSE sdone
    /\ UNCHANGED <<sseOnly, sch, stable, gctx, xpc, ppc, hpc, spanic>>

\* The request's context ends.
SSERequestDone ==
    /\ gpc \in {"handle", "select"} /\ ~gctx
    /\ gctx' = TRUE
    /\ UNCHANGED <<sseOnly, sdone, sch, stable, gpc, xpc, ppc, hpc, spanic>>

\* handleSSE's select, case <-session.done: a receive from a nil channel never
\* comes, one from a closed channel does.
SSESelectDone ==
    /\ gpc = "select" /\ sdone = "closed"
    /\ gpc' = "delete"
    /\ UNCHANGED <<sseOnly, sdone, sch, stable, gctx, xpc, ppc, hpc, spanic>>

\* handleSSE's select, case <-r.Context().Done(): close(session.ch), which
\* panics when the channel is closed already.
SSESelectCtx ==
    /\ gpc = "select" /\ gctx
    /\ IF sch = "closed"
       THEN Panic(0, "close of closed channel") /\ gpc' = "panicked" /\ UNCHANGED sch
       ELSE sch' = "closed" /\ gpc' = "delete" /\ UNCHANGED spanic
    /\ UNCHANGED <<sseOnly, sdone, stable, gctx, xpc, ppc, hpc>>

\* handleSSE's end: delete(s.sessions, id) under s.mu, and return.
SSEDelete ==
    /\ gpc = "delete"
    /\ stable' = FALSE
    /\ gpc' = "returned"
    /\ UNCHANGED <<sseOnly, sdone, sch, gctx, xpc, ppc, hpc, spanic>>

\* SSESession.Close, the select: case <-s.done returns nil when done is closed;
\* else (done open or nil) the default case is taken.
SessionCloseSelect(k) ==
    /\ xpc[k] \in {"idle", "returned"} /\ sch # "none"
    /\ xpc' = [xpc EXCEPT ![k] = IF sdone = "closed" THEN "returned" ELSE "closeDone"]
    /\ UNCHANGED <<sseOnly, sdone, sch, stable, gpc, gctx, ppc, hpc, spanic>>

\* SSESession.Close, close(s.done): panics on a nil and on a closed channel.
SessionCloseDone(k) ==
    /\ xpc[k] = "closeDone"
    /\ IF sdone = "open"
       THEN /\ sdone' = "closed"
            /\ xpc' = [xpc EXCEPT ![k] = "closeCh"]
            /\ UNCHANGED spanic
       ELSE /\ Panic(k, IF sdone = "nil" THEN "close of nil channel"
                                        ELSE "close of closed channel")
            /\ xpc' = [xpc EXCEPT ![k] = "panicked"]
            /\ UNCHANGED sdone
    /\ UNCHANGED <<sseOnly, sch, stable, gpc, gctx, ppc, hpc>>

\* SSESession.Close, close(s.ch), and return nil.
SessionCloseCh(k) ==
    /\ xpc[k] = "closeCh"
    /\ IF sch = "open"
       THEN /\ sch' = "closed"
            /\ xpc' = [xpc EXCEPT ![k] = "returned"]
            /\ UNCHANGED spanic
       ELSE /\ Panic(k, "close of closed channel")
            /\ xpc' = [xpc EXCEPT ![k] = "panicked"]
            /\ UNCHANGED sch
    /\ UNCHANGED <<sseOnly, sdone, stable, gpc, gctx, ppc, hpc>>

\* SSE.handleMessage up to the send: the session is looked up under s.mu; 404
\* when it is not in the table.
PostLookup ==
    /\ ppc \in {"idle", "notFound", "sent"}
    /\ ppc' = IF stable THEN "send" ELSE "notFound"
    /\ UNCHANGED <<sseOnly, sdone, sch, stable, gpc, gctx, xpc, hpc, spanic>>

\* SSE.handleMessage, session.ch <- bytes.NewReader(b): taken by Receive, or
\* a panic when the channel is closed.
PostSend ==
    /\ ppc = "send"
    /\ IF sch = "closed"
       THEN Panic(-1, "send on closed channel") /\ ppc' = "panicked"
       ELSE ppc' = "sent" /\ UNCHANGED spanic
    /\ UNCHANGED <<sseOnly, sdone, sch, stable, gpc, gctx, xpc, hpc>>

\* SSESession.HandleMessage(r), s.ch <- r, on a session of either origin,
\* whether it is in the table or not: the reader is taken by Receive, or a
\* panic when the channel is closed.
HandleMessage ==
    /\ sch # "none"
    /\ hpc \in {"idle", "sent"}
    /\ IF sch = "closed"
       THEN Panic(-2, "send on closed channel") /\ hpc' = "panicked"
       ELSE hpc' = "sent" /\ UNCHANGED spanic
    /\ UNCHANGED <<sseOnly, sdone, sch, stable, gpc, gctx, xpc, ppc>>

SseNext ==
    \/ NewSSESession
    \/ SSEHandleGet
    \/ \E err \in BOOLEAN, setsDone \in BOOLEAN : SSEHandleSessionReturns(err, setsDone)
    \/ SSERequestDone
    \/ SSESelectDone
    \/ SSESelectCtx
    \/ SSEDelete
    \/ \E k \in SessionClosers : SessionCloseSelect(k)
    \/ \E k \in SessionClosers : SessionCloseDone(k)
    \/ \E k \in SessionClosers : SessionCloseCh(k)
    \/ PostLookup
    \/ PostSend
    \/ HandleMessage

SseSpec == Init /\ [][SseNext]_vars

\* ------------------------------------------------------------------ Next
DirectIDs == {NullID} \cup {NewID(n) : n \in 1..MaxDirectId}

Next ==
    \/ \E c \in Calls, id \in DirectIDs, ctxDone \in BOOLEAN : Call(c, id, ctxDone)
    \/ \E c \in Calls, ctxDone \in BOOLEAN : GenericCall(c, ctxDone)
    \/ \E c \in Calls, ctxDone \in BOOLEAN : GenericConnCall(c, ctxDone)
    \/ \E c \in Calls : CallRegister(c)
    \/ \E c \in Calls, ok \in BOOLEAN : CallSendReturns(c, ok)
    \/ \E c \in Calls : CallSendFailed(c)
    \/ \E c \in Calls : CallReceives(c)
    \/ \E c \in Calls : CallCtxDone(c)
    \/ \E c \in Calls : CallCancelled(c)
    \/ \E c \in Calls, ctxDone \in BOOLEAN : Notify(c, ctxDone)
    \/ \E c \in Calls, ok \in BOOLEAN : NotifySendReturns(c, ok)
    \/ CloseBegin
    \/ CloseTransport
    \/ Serve
    \/ \E msg \in Inbound : ServeMessage(msg)
    \/ ServeHandles
    \/ SendMethodNotFound
    \/ ServeEnds
    \/ \E h \in MainOutcomes : HandlerReturns(h)
    \/ \E ok \in BOOLEAN : SendReturns(ok)
    \/ Deliver
    \/ CancelServeCtx

Spec == Init /\ [][Next]_vars

\* The connection with Close called by several goroutines at once, with Open
\* as well as Serve, and one caller.
CloseCallers == {1}

CloseNext ==
    \/ \E k \in Closers : CloseSelect(k)
    \/ \E k \in Closers : CloseChan(k)
    \/ \E k \in Closers : CloseReturns(k)
    \/ Open
    \/ OpenServe
    \/ Serve
    \/ \E msg \in Inbound : ServeMessage(msg)
    \/ ServeHandles
    \/ SendMethodNotFound
    \/ ServeEnds
    \/ \E h \in MainOutcomes : HandlerReturns(h)
    \/ \E ok \in BOOLEAN : SendReturns(ok)
    \/ Deliver
    \/ CancelServeCtx
    \/ \E c \in CloseCallers, id \in DirectIDs, ctxDone \in BOOLEAN : Call(c, id, ctxDone)
    \/ \E c \in CloseCallers, ctxDone \in BOOLEAN : GenericCall(c, ctxDone)
    \/ \E c \in CloseCallers, ctxDone \in BOOLEAN : GenericConnCall(c, ctxDone)
    \/ \E c \in CloseCallers : CallRegister(c)
    \/ \E c \in CloseCallers, ok \in BOOLEAN : CallSendReturns(c, ok)
    \/ \E c \in CloseCallers : CallSendFailed(c)
    \/ \E c \in CloseCallers : CallReceives(c)
    \/ \E c \in CloseCallers : CallCtxDone(c)
    \/ \E c \in CloseCallers : CallCancelled(c)

CloseSpec == Init /\ [][CloseNext]_vars

\* The loop alone, with a peer that sends single messages and batches, and
\* handlers that return every kind of outcome.
BatchNext ==
    \/ Serve
    \/ \E msg \in Inbound \cup InBatches : ServeMessage(msg)
    \/ ServeHandles
    \/ SendMethodNotFound
    \/ ServeEnds
    \/ \E h \in HandlerOutcomes : HandlerReturns(h)
    \/ \E h \in HandlerOutcomes : BatchHandlerReturns(h)
    \/ \E ok \in BOOLEAN : SendReturns(ok)
    \/ CancelServeCtx
    \/ CloseBegin
    \/ CloseTransport

BatchSpec == Init /\ [][BatchNext]_vars

\* One generic Call and the loop, with a peer that sends responses, error
\* responses among them.
CallNext ==
    \/ \E ctxDone \in BOOLEAN : GenericCall(1, ctxDone)
    \/ \E ctxDone \in BOOLEAN : GenericConnCall(1, ctxDone)
    \/ CallRegister(1)
    \/ \E ok \in BOOLEAN : CallSendReturns(1, ok)
    \/ CallSendFailed(1)
    \/ CallReceives(1)
    \/ CallCtxDone(1)
    \/ CallCancelled(1)
    \/ CloseBegin
    \/ CloseTransport
    \/ Serve
    \/ \E msg \in InResponses \cup InErrorResponses : ServeMessage(msg)
    \/ ServeHandles
    \/ ServeEnds
    \/ Deliver
    \/ CancelServeCtx

CallSpec == Init /\ [][CallNext]_vars

\* One generic Call and the loop, with a peer that sends responses on their own
\* and in batches, next to requests and notifications for a method without a
\* handler.
InResponseBatches ==
    { Batch(items) :
        items \in UNION { [1..n -> { Obj(TRUE, NumW(10), "", TRUE, FALSE),
                                     Obj(TRUE, NumW(10), "u", FALSE, FALSE),
                                     Obj(TRUE, AbsentW, "u", FALSE, FALSE) }]
                          : n \in 1..MaxBatch } }

BatchCallNext ==
    \/ \E ctxDone \in BOOLEAN : GenericCall(1, ctxDone)
    \/ \E ctxDone \in BOOLEAN : GenericConnCall(1, ctxDone)
    \/ CallRegister(1)
    \/ \E ok \in BOOLEAN : CallSendReturns(1, ok)
    \/ CallSendFailed(1)
    \/ CallReceives(1)
    \/ CallCtxDone(1)
    \/ CallCancelled(1)
    \/ Serve
    \/ \E msg \in InResponses \cup InResponseBatches : ServeMessage(msg)
    \/ ServeHandles
    \/ ServeEnds
    \/ \E ok \in BOOLEAN : SendReturns(ok)
    \/ Deliver
    \/ CancelServeCtx
    \/ CloseBegin
    \/ CloseTransport

BatchCallSpec == Init /\ [][BatchCallNext]_vars

\* getMessageType on its own.  The objects given to it: every combination of
\* a "jsonrpc" member that is absent, "2.0", another string or a number, an
\* "id" member that is absent, null, a number or of another type, a "method"
\* member absent or present, and "result" and "error" members absent or
\* present.
JsonrpcValues == {"absent", "2.0", "1.0", "number"}

ClassifierInputs ==
    { [jsonrpc |-> j, msg |-> Obj(j = "2.0", i, m, r, e)] :
        j \in JsonrpcValues, i \in {AbsentW, NullW, NumW(10), NumW(15), BadW},
        m \in {"", "m", "u"}, r \in BOOLEAN, e \in BOOLEAN }

ClassifyInit ==
    ConnInit /\ gin \in ClassifierInputs /\ gtype = "none" /\ PipeInit /\ MuxInit /\ SseInit

\* getMessageType(msg) is called and returns.
Classify ==
    /\ gtype = "none"
    /\ gtype' = getMessageType(gin.msg)
    /\ UNCHANGED <<connVars, callVars, loopVars, lopen, lidx, lresp, kpc, gin, rpc, pipeVars, muxVars, sseVars>>

ClassifySpec == ClassifyInit /\ [][Classify]_vars

\* The loop with a peer that sends requests and notifications, while handlers
\* are registered by other goroutines.
RegistryNext ==
    \/ \E k \in Registrars, method \in {"m", "u"} : RegisterBegin(k, method)
    \/ \E k \in Registrars : RegisterEnd(k)
    \/ Serve
    \/ \E msg \in InRequests \cup InNotifications : ServeMessage(msg)
    \/ ServeHandles
    \/ SendMethodNotFound
    \/ HandlerLookupFatal
    \/ ServeEnds
    \/ \E h \in MainOutcomes : HandlerReturns(h)
    \/ \E ok \in BOOLEAN : SendReturns(ok)

RegistrySpec == Init /\ [][RegistryNext]_vars

\* Two connections joined by a pipe, both serving, a task on each side calling
\* the other side.
PipeNext ==
    \/ \E s \in Sides, t \in PipeTasks : PipeCall(s, t)
    \/ \E s \in Sides, who \in PipeTasks \cup {0} : PipeSendBegins(s, who)
    \/ \E s \in Sides, w \in PipeWrites : PipeRead(s, w)
    \/ \E s \in Sides : PipeDeliver(s)
    \/ \E s \in Sides, who \in PipeTasks \cup {0} : PipeWriteReturns(s, who)
    \/ \E s \in Sides, who \in PipeTasks \cup {0} : PipeSendReturns(s, who)
    \/ \E s \in Sides : PipeHandlerReturns(s)
    \/ \E s \in Sides, t \in PipeTasks : PipeCallReceives(s, t)
    \/ \E s \in Sides, t \in PipeTasks : PipeCallCtxDone(s, t)
    \/ \E s \in Sides, t \in PipeTasks : PipeCallCancelled(s, t)

PipeSpec == Init /\ [][PipeNext]_vars

\* The router on its own.  The URIs registered: fixed and parameterized paths,
\* fixed hosts and host templates, the same route written in upper case or
\* with another parameter name, a query, and a parameter name used twice.
\* The URIs executed: with hosts that fit the templates or not, with and
\* without a query.
RouteURIs ==
    { URI(<<"h">>, <<"a">>, <<<<"u">>, <<"p">>>>, << >>),
      URI(<<"H">>, <<"A">>, <<<<"u">>, << >>, <<"p">>>>, << >>),
      URI(<<"h">>, <<"a">>, <<<<"u">>, <<"{", "x", "}">>>>, << >>),
      URI(<<"h">>, <<"a">>, <<<<"u">>, <<"{", "y", "}">>>>, << >>),
      URI(<<"h">>, <<"a">>, <<<<"u">>, <<"p">>>>, <<<<<<"k">>, <<"v">>>>>>),
      URI(<<"h">>, <<"{", "x", "}", "a">>, <<<<"u">>, <<"p">>>>, << >>),
      URI(<<"h">>, <<"{", "y", "}", "b">>, <<<<"u">>, <<"p">>>>, << >>),
      URI(<<"h">>, <<"a", "{", "x", "}", "a">>, <<<<"u">>, <<"p">>>>, << >>),
      URI(<<"h">>, <<"{", "x", "}", "a">>, <<<<"u">>, <<"{", "x", "}">>>>, << >>),
      URI(<<"h">>, <<"{", "y", "}">>, <<<<"u">>, <<"{", "x", "}">>>>, << >>) }

RequestURIs ==
    { URI(<<"h">>, <<"a">>, <<<<"u">>, <<"p">>>>, << >>),
      URI(<<"h">>, <<"a">>, <<<<"u">>, <<"p">>>>, <<<<<<"k">>, <<"v">>>>, <<<<"q">>, <<"v">>>>>>),
      URI(<<"h">>, <<"a">>, <<<<"u">>, <<"q">>>>, << >>),
      URI(<<"H">>, <<"B", "a">>, <<<<"u">>, <<"p">>, << >>>>, << >>),
      URI(<<"h">>, <<"a", "b", "a">>, <<<<"u">>, <<"p">>>>, << >>),
      URI(<<"h">>, <<"b">>, <<<<"u">>, <<"p">>>>, << >>),
      URI(<<"h">>, <<"a">>, <<<<"u">>>>, << >>),
      [URI(<< >>, <<"a">>, <<<<"u">>, <<"p">>>>, << >>) EXCEPT !.sep = FALSE],
      URI(<<"h">>, << >>, <<<<"u">>, <<"p">>>>, << >>),
      URI(<<"h">>, <<"a">>, <<<<"u">>, <<"p">>>>, <<<<<<"k">>, <<"v">>>>, <<<<"k">>, <<"w">>>>>>),
      URI(<<"h">>, <<"a">>, <<<<"u">>, <<"p">>>>, <<<<<< >>, <<"v">>>>>>) }

MuxNext ==
    \/ \E h \in BOOLEAN : SetNotFoundHandler(h)
    \/ \E u \in RouteURIs : Handle(u)
    \/ \E u \in RequestURIs : Execute(u)

MuxSpec == Init /\ [][MuxNext]_vars

\* The steps the connection's own goroutines take when they can.  Not among
\* them: the start of an operation, the arrival of a message, the cancellation
\* of a context, and the return of a Send or of the receive sequence, which
\* are up to the caller, the peer and the transport given to the connection.
FairSpec ==
    /\ Spec
    /\ \A c \in Calls : WF_vars(\E ctxDone \in BOOLEAN : GenericConnCall(c, ctxDone))
    /\ \A c \in Calls : WF_vars(CallRegister(c))
    /\ \A c \in Calls : WF_vars(CallSendFailed(c))
    /\ \A c \in Calls : WF_vars(CallReceives(c))
    /\ \A c \in Calls : WF_vars(CallCancelled(c))
    /\ WF_vars(CloseTransport)
    /\ WF_vars(ServeHandles)
    /\ WF_vars(SendMethodNotFound)
    /\ WF_vars(Deliver)
    /\ WF_vars(\E h \in MainOutcomes : HandlerReturns(h))

\* ------------------------------------------------------------------ claims
\* A Conn.Call that has passed its entry select and has not returned.
Outstanding(c) == cpc[c] \in {"lock", "sending", "unregister", "wait", "cancel"}

\* The operations inside transport.Send: Calls, Notifies, and 0 for the loop.
InSend == {c \in Calls : cpc[c] \in {"sending", "nsending"}}
          \cup (IF lpc = "send" THEN {0} ELSE {})

\* C1: once Close has closed the connection, every Call that is blocked
\* waiting for its response eventually returns, though its context is never
\* cancelled and no response arrives.
C1_CloseUnblocksCalls ==
    \A c \in Calls :
        (tclosed /\ cpc[c] = "wait" /\ ~IsNull(cid[c])) ~> (cpc[c] = "done")

\* C2: once a Call has returned, by its response, a failed send or its
\* context, the pending table has no entry for its ID, provided no other
\* outstanding Call uses that ID.
C2_ReturnedCallLeavesNoEntry ==
    \A c \in Calls :
        (/\ cpc[c] = "done"
         /\ cop[c] \in {"call", "gcall"}
         /\ \A d \in Calls \ {c} : Outstanding(d) => cid[d] # cid[c])
        => cid[c] \notin DOMAIN pending

\* Both a Call ended by its response and a Call ended by a failed send have
\* returned, and nothing is pending.
C2_Witness ==
    /\ \E c, d \in Calls : cres[c] = "response" /\ cres[d] = "sendErr"
    /\ DOMAIN pending = {}

\* C3: a response put into a Call's channel, and the response a Call returns,
\* has the Call's own ID as its (decoded) id, in whatever order the responses
\* arrive; so it never has the ID of another Call with a different ID.
C3_ResponseMatchesCallId ==
    \A c \in Calls :
        /\ slot[c] # NoMsg => UnmarshalID(slot[c].id) = cid[c]
        /\ cres[c] = "response" => UnmarshalID(cgot[c].id) = cid[c]

\* Two generic Calls were outstanding together; the one with the later ID has
\* returned its response while the earlier one still waits for its own.
C3_Witness ==
    \E c, d \in Calls :
        /\ cop[c] = "gcall" /\ cop[d] = "gcall"
        /\ cid[c].v < cid[d].v
        /\ cpc[c] = "wait" /\ slot[c] = NoMsg
        /\ cres[d] = "response"

\* C4: at most one transport.Send is in progress at any time, whether issued
\* by Call, by Notify or by the loop's replies.
C4_SendsMutuallyExclusive == Cardinality(InSend) <= 1

\* C5: when the loop has handled a single message classified as a Request
\* (its context live), it has sent exactly one response, with the request's id.
C5_RequestAnsweredOnce ==
    (lpc = "recv" /\ getMessageType(lmsg) = "request" /\ ~lctx)
    => (Len(lout) = 1 /\ MarshalID(lout[1].id) = lmsg.id)

\* C6: an entry of the pending table is never replaced: registering an ID that
\* is pending fails and leaves the entry as it was.
C6_RegisterFailsOnPendingId ==
    [][\A i \in DOMAIN pending : i \in DOMAIN pending' => pending'[i] = pending[i]]_vars

\* C7: the null ID never correlates: it is never a key of the pending table
\* and no response whose id is null or absent is put into a Call's channel.
C7_NullIdNeverCorrelates ==
    /\ NullID \notin DOMAIN pending
    /\ \A c \in Calls : slot[c] # NoMsg => ~IsNull(UnmarshalID(slot[c].id))

\* A generic Call that has taken an ID from the counter.
GenAllocated(c) == cop[c] = "gcall" /\ cid[c] # NullID

\* C8: the IDs the generic Call hands out are pairwise distinct, and each is
\* non-null and greater than every ID handed out before it, whether the Call
\* that took it goes on to register it or returns an error from Conn.Call's
\* entry select; a generic Call takes an ID in its first step or returns the
\* context's error there without one, and keeps the ID it took.
C8_GenericCallIds ==
    /\ [](\A c, d \in Calls :
            (c # d /\ GenAllocated(c) /\ GenAllocated(d)) => cid[c] # cid[d])
    /\ [][\A c \in Calls :
            /\ (cop[c] = "none" /\ cop'[c] = "gcall")
                => IF cpc'[c] = "enter"
                   THEN /\ ~IsNull(cid'[c])
                        /\ \A d \in Calls \ {c} : GenAllocated(d) => cid[d].v < cid'[c].v
                   ELSE /\ cpc'[c] = "done" /\ cres'[c] = "ctxErr"
                        /\ cid'[c] = cid[c] /\ idctr' = idctr
            /\ GenAllocated(c) => cid'[c] = cid[c]]_vars

\* Two generic Calls hold different IDs at once: one is registered and waits
\* for its response, the other has taken its ID and has not yet passed
\* Conn.Call's entry select.
C8_Witness ==
    \E c, d \in Calls :
        /\ c # d /\ cop[c] = "gcall" /\ cop[d] = "gcall"
        /\ cpc[c] = "wait" /\ cpc[d] = "enter"
        /\ cid[c] # cid[d]

\* C9: when a response and the cancellation of the Call waiting for it race,
\* the entry is taken by one of them only and both go on: the loop holds a
\* channel only after removing its entry, with the mutex released and the
\* channel's buffer free, so its put cannot block; a channel that got a
\* response, and a Call that returned, have no entry left; and a Call returns
\* the response or an error, not both.
C9_DeliverCancelRace ==
    \A c \in Calls :
        LET hasEntry == \E i \in DOMAIN pending : pending[i] = c
        IN  /\ (lpc = "deliver" /\ lch = c)
                => (slot[c] = NoMsg /\ ~hasEntry /\ mutex = "free")
            /\ slot[c] # NoMsg => ~hasEntry
            /\ cpc[c] = "done" => ~hasEntry
            /\ cgot[c] # NoMsg <=> cres[c] = "response"

\* The race itself: the Call has taken ctx.Done() and the loop holds its
\* channel, the response not yet put into it.
C9_Witness == \E c \in Calls : cpc[c] = "cancel" /\ lpc = "deliver" /\ lch = c

\* C10: Serve never returns out of the handling of a single message.
C10_SingleMessageNeverEndsServe == ~(lpc = "returned" /\ lmsg # NoMsg)

\* C11: a single message that does not decode is answered with one ParseError
\* response with null id, and when the send of that reply fails Serve does not
\* return: the loop is back receiving.
C11_ParseErrorSendFailureSwallowed ==
    (lmsg.shape = "junk" /\ lpc \in {"recv", "returned"})
    => (lout = <<Reply(NullID, CodeParseError)>> /\ lpc = "recv")

\* C12: when the loop has handled a single message that is a JSON object but
\* not a valid message (wrong or missing version, no known shape), it has
\* sent one error response for it, with the message's id or the null id.
C12_InvalidMessageAnswered ==
    (lpc = "recv" /\ lmsg.shape = "obj" /\ getMessageType(lmsg) = "invalid")
    => (/\ Len(lout) = 1
        /\ lout[1].code # 0
        /\ lout[1].id = (IF UnmarshalIDOk(lmsg.id) THEN UnmarshalID(lmsg.id) ELSE NullID))

\* C13: once the context given to Serve is cancelled while the loop waits for
\* a message, Serve eventually returns, though no further message arrives and
\* the transport stays open.
C13_ServeCtxCancelReturns == (lctx /\ lpc = "recv") ~> (lpc = "returned")

\* C16: no step of a Notify changes the pending table, a Notify whose context
\* is done returns the context's error without starting a Send, any other
\* Notify returns with the step in which its Send returns, and a Notify is
\* never registered in the pending table nor waiting for a response.
C16_NotifyLeavesPending ==
    /\ [](\A c \in Calls :
            cop[c] = "notify"
            => /\ cpc[c] \in {"nsending", "done"}
               /\ \A i \in DOMAIN pending : pending[i] # c)
    /\ [][\A c \in Calls :
            (cop'[c] = "notify" /\ cpc'[c] # cpc[c])
            => /\ pending' = pending
               /\ cpc[c] = "idle"
                    => \/ cpc'[c] = "done" /\ cres'[c] = "ctxErr"
                       \/ cpc'[c] = "nsending"
               /\ cpc[c] = "nsending"
                    => cpc'[c] = "done" /\ cres'[c] \in {"ok", "sendErr"}]_vars

\* A Notify has returned from its Send while a Call is registered and waits.
C16_Witness ==
    \E c, d \in Calls :
        /\ cop[c] = "notify" /\ cres[c] = "ok"
        /\ cpc[d] = "wait" /\ cid[d] \in DOMAIN pending

\* C14: however the Close calls interleave, none of them panics, the transport
\* is closed by one of them only, and the others return nil.
C14_CloseIdempotent ==
    /\ \A k \in Closers : kpc[k] # "panic"
    /\ Cardinality({k \in Closers : kpc[k] \in {"tclosing", "done"}}) <= 1

\* A Close has returned: the one that closed the transport, or one that found
\* c.closed closed.
CloseHasReturned == \E k \in Closers : kpc[k] \in {"done", "nil"}

\* C15: once a Close has returned, a Call that starts returns an error from
\* its entry select, which is the first step of a Conn.Call and, for a generic
\* Call whose own select found the context live, the step after the one that
\* takes its ID; and an Open or a Serve that starts returns an error in its
\* first step: no loop is started, and the pending table, the transport and
\* the mutex are left as they were.
C15_ClosedIsTerminal ==
    [][CloseHasReturned
       => /\ \A c \in Calls :
                (cpc[c] \in {"idle", "enter"} /\ cpc'[c] # cpc[c])
                => /\ \/ /\ cpc'[c] = "done"
                         /\ cres'[c] \in {"ctxErr", "closedErr"}
                      \/ /\ cpc[c] = "idle" /\ cpc'[c] = "enter"
                         /\ cop'[c] = "gcall"
                   /\ pending' = pending /\ mutex' = mutex /\ tclosed' = tclosed
          /\ (lpc = "init" /\ lpc' # "init")
                => /\ lpc' = "returned"
                   /\ lerr' \in {"ctx", "closed", "openClosed"}
                   /\ pending' = pending /\ mutex' = mutex]_vars

\* After a Close that returned, a generic Call that had taken its ID has
\* returned the closed-connection error and an Open has returned its error.
C15_Witness ==
    /\ CloseHasReturned
    /\ \E c \in Calls : cop[c] = "gcall" /\ ~IsNull(cid[c]) /\ cres[c] = "closedErr"
    /\ lopen /\ lpc = "returned" /\ lerr = "openClosed"

\* C20: a generic Call that got a response with an error member returns an
\* error with that member's code, and one that returns no error got a response
\* with a result.
C20_ErrorResponseIsReturned ==
    \A c \in Calls :
        (cop[c] = "gcall" /\ cres[c] = "response")
        => /\ cgot[c].error
                => GenericCallError(c) = [err |-> TRUE, code |-> cgot[c].ecode]
           /\ ~GenericCallError(c).err => cgot[c].result

\* The loop has finished the for loop of handleBatchMessage for the batch lmsg.
BatchDone == lmsg.shape = "batch" /\ lmsg.items # << >> /\ lpc \in {"send", "recv", "returned"}

\* The responses of the reply sent for the batch lmsg (none if nothing is sent).
BatchSent == IF lout = << >> THEN << >> ELSE lout[1].array

\* The elements of the batch lmsg of the given types.
BatchElements(types) ==
    {i \in 1..Len(lmsg.items) : getMessageType(lmsg.items[i]) \in types}

\* C17: a request for a method without a handler is answered with an error
\* response with the code MethodNotFound and the request's id: as the only
\* reply when it is a single message, as an element of the reply array when it
\* is an element of a batch.
C17_MethodNotFoundAnswered ==
    /\ (/\ lpc = "recv" /\ ~lctx /\ lmsg.shape = "obj"
         /\ getMessageType(lmsg) = "request" /\ lmsg.method \notin handlers)
        => /\ Len(lout) = 1
           /\ lout[1].code = CodeMethodNotFound
           /\ MarshalID(lout[1].id) = lmsg.id
    /\ BatchDone
        => \A i \in BatchElements({"request"}) :
              lmsg.items[i].method \notin handlers
              => \E j \in 1..Len(BatchSent) :
                    /\ BatchSent[j].code = CodeMethodNotFound
                    /\ MarshalID(BatchSent[j].id) = lmsg.items[i].id

\* C18: a notification makes the loop send nothing.  While and after a single
\* notification is handled no Send is started for it; the reply to a batch
\* has one element for each of its requests and invalid elements and none for
\* its notifications, and nothing is sent for a batch of notifications only.
C18_NotificationNeverAnswered ==
    /\ (lmsg.shape = "obj" /\ getMessageType(lmsg) = "notification")
        => (lout = << >> /\ lpc # "send")
    /\ lpc = "bhandler"
        => Len(lresp) <= Cardinality(BatchElements({"request", "invalid"}))
    /\ BatchDone
        => /\ Len(BatchSent) = Cardinality(BatchElements({"request", "invalid"}))
           /\ BatchElements({"request", "invalid"}) = {} => lout = << >>

\* A batch of a notification with a handler and a request has been handled:
\* the reply array has one element, the request's.
C18_Witness ==
    /\ BatchDone /\ lpc = "recv" /\ Len(lmsg.items) = 2
    /\ getMessageType(lmsg.items[1]) = "notification"
    /\ lmsg.items[1].method \in handlers
    /\ getMessageType(lmsg.items[2]) = "request"
    /\ Len(BatchSent) = 1
    /\ MarshalID(BatchSent[1].id) = lmsg.items[2].id

\* C19: every response the loop hands to Send, on its own or as an element of
\* a batch reply, has exactly one of the members result and error.
C19_ResultXorError ==
    \A i \in 1..Len(lout) :
        IF lmsg.shape = "batch" /\ lmsg.items # << >>
        THEN \A j \in 1..Len(lout[i].array) :
                Cardinality(WireMembers(lout[i].array[j])) = 1
        ELSE Cardinality(WireMembers(lout[i])) = 1

\* The loop has answered the empty batch lmsg.
EmptyBatchAnswered ==
    lmsg.shape = "batch" /\ lmsg.items = << >> /\ lpc \in {"send", "recv", "returned"}

\* C21: for an empty batch the loop hands exactly one message to Send, and it
\* is a single error object, not an array, whose code is InvalidRequest and
\* whose "id" member is null.
C21_EmptyBatchAnswer ==
    EmptyBatchAnswered
    => /\ Len(lout) = 1
       /\ "array" \notin DOMAIN lout[1]
       /\ lout[1].error /\ lout[1].code = CodeInvalidRequest
       /\ WireID(lout[1]) = NullW

\* The classifier's type of a batch element.
IsRequest(e) == getMessageType(e) = "request"

\* The elements of the batch lmsg that are requests, in batch order.
BatchRequests == SelectSeq(lmsg.items, IsRequest)

\* C22: when the loop has gone through a batch of requests and notifications,
\* it has sent at most one message: an array with one element for each request,
\* in batch order and with that request's id, and no element for a
\* notification; for a batch of notifications only it has sent nothing.
C22_BatchReplyOrder ==
    (BatchDone /\ BatchElements({"request", "notification"}) = 1..Len(lmsg.items))
    => /\ Len(lout) <= 1
       /\ Len(BatchSent) = Len(BatchRequests)
       /\ \A j \in 1..Len(BatchSent) : WireID(BatchSent[j]) = BatchRequests[j].id
       /\ BatchRequests = << >> => lout = << >>

\* The response elements of a batch whose id has an entry in the pending table.
PendingResponses(msg) ==
    {i \in 1..Len(msg.items) :
        /\ getMessageType(msg.items[i]) = "response"
        /\ UnmarshalOk(msg.items[i])
        /\ UnmarshalID(msg.items[i].id) \in DOMAIN pending}

\* C23: in the step in which the loop takes a batch and goes through it, every
\* response element whose id is pending is taken out of the pending table for
\* its Call, as a single response is by handleResponse, and the reply array
\* gets no element for it.
C23_BatchResponseDelivered ==
    [][\A msg \in InResponseBatches :
          (lmsg = msg /\ ServeHandles)
          => /\ \A i \in PendingResponses(msg) :
                  UnmarshalID(msg.items[i].id) \notin DOMAIN pending'
             /\ \A j \in 1..Len(lout') :
                  Len(lout'[j].array)
                    = Cardinality({i \in 1..Len(msg.items) : IsRequest(msg.items[i])})]_vars

\* The responses handleBatchMessage has collected after a step: those kept
\* while a handler runs, or those of the array handed to Send.
BatchCollected(resp, out, pc) ==
    IF pc = "bhandler" THEN resp ELSE IF out = << >> THEN << >> ELSE out[1].array

\* The members of a response that the peer tells apart.
ResponseMembers(r) == [id |-> r.id, result |-> r.result, error |-> r.error, code |-> r.code]

\* C24: when the handler of a request that is an element of a batch returns,
\* the response added to the batch reply has the id, the result and the error
\* of the response that is sent when the same request comes on its own and its
\* handler returns the same.
C24_BatchElementAsSingle ==
    [][\A h \in HandlerOutcomes :
          (BatchHandlerReturns(h) /\ IsRequest(lmsg.items[lidx]))
          => LET added == BatchCollected(lresp', lout', lpc')[Len(lresp) + 1]
             IN  ResponseMembers(added)
                   = ResponseMembers(RequestReply(UnmarshalID(lmsg.items[lidx].id), h))]_vars

\* A response that handleResponse finds no channel for: it does not decode, or
\* its decoded ID is not a key of the pending table.
Orphan(msg) ==
    /\ msg.shape = "obj" /\ getMessageType(msg) = "response"
    /\ ~UnmarshalOk(msg) \/ UnmarshalID(msg.id) \notin DOMAIN pending

\* C25: the step in which the loop handles a response without a pending entry
\* leaves the pending table and every Call's channel as they were, starts no
\* Send, and ends with the loop receiving again, Serve not returned.
C25_OrphanResponseIgnored ==
    [][\A msg \in Inbound \cup InErrorResponses :
          (lmsg = msg /\ ServeHandles /\ Orphan(msg))
          => /\ pending' = pending
             /\ slot' = slot
             /\ lout' = << >> /\ mutex' = mutex
             /\ lpc' = "recv" /\ lerr' = "none"]_vars

\* A Call has returned its response, and the loop has since handled another
\* response with the same ID, the Call's entry being gone; it receives again.
C25_Witness ==
    \E c \in Calls :
        /\ cres[c] = "response"
        /\ cid[c] \notin DOMAIN pending
        /\ lpc = "recv" /\ getMessageType(lmsg) = "response"
        /\ UnmarshalOk(lmsg) /\ UnmarshalID(lmsg.id) = cid[c]
        /\ lmsg # cgot[c]
        /\ lout = << >>

\* The keys of the object given to the classifier, among those it looks at.
Has(key) ==
    IF key = "id" THEN gin.msg.id.t # "absent"
    ELSE IF key = "method" THEN gin.msg.method # ""
    ELSE IF key = "result" THEN gin.msg.result
    ELSE gin.msg.error

\* C26: the classifier's outcome for an object follows the ordered table over
\* its keys: failure unless "jsonrpc" is "2.0"; else a response if "error" is
\* present; else, if "result" is present, a response with an "id" and a failure
\* without; else, if "method" is present, a request with an "id" and a
\* notification without; else failure.
C26_ClassifierTable ==
    gtype # "none"
    => gtype = (CASE gin.jsonrpc # "2.0" -> "invalid"
                  [] gin.jsonrpc = "2.0" /\ Has("error") -> "response"
                  [] gin.jsonrpc = "2.0" /\ ~Has("error") /\ Has("result")
                       -> IF Has("id") THEN "response" ELSE "invalid"
                  [] gin.jsonrpc = "2.0" /\ ~Has("error") /\ ~Has("result") /\ Has("method")
                       -> IF Has("id") THEN "request" ELSE "notification"
                  [] OTHER -> "invalid")

\* An object with the keys id, method and result and no error has been
\* classified: the result row of the table comes before the method row.
C26_Witness ==
    /\ gin.jsonrpc = "2.0" /\ Has("id") /\ Has("method") /\ Has("result") /\ ~Has("error")
    /\ gtype = "response"

\* The RegisterHandler calls whose assignment to c.handlers is under way.
Registering == {k \in Registrars : rpc[k].pc = "writing"}

\* The loop looks msg's method up in c.handlers: handleNotification does, and
\* handleRequest when it has found the context live.
LooksUp(msg) ==
    /\ getMessageType(msg) \in {"request", "notification"}
    /\ getMessageType(msg) = "request" => ~lctx
    /\ UnmarshalOk(msg)

\* C27: at most one RegisterHandler call is writing the registry at any time,
\* and the loop looks a method up in the registry only while no RegisterHandler
\* call is writing it.
C27_RegistryMutex ==
    /\ [](Cardinality(Registering) <= 1)
    /\ [][\A msg \in InRequests \cup InNotifications :
            (lmsg = msg /\ ServeHandles /\ LooksUp(msg))
            => Registering = {}]_vars

\* The loop of side s is inside transport.Send, in a Write that returns only
\* when the other side's loop reads.
LoopBlockedInSend(s) == \E w \in qpipe[s] : w.who = 0

\* C28: with two connections joined by a pipe, both serving, and a task on
\* each side calling the other side, the two dispatch loops are never both
\* blocked in a Send.
C28_PipeNoDeadlock == ~(\A s \in Sides : LoopBlockedInSend(s))

\* A request host fits a route's host: it is the fixed host, or it is the
\* template with a text that is not empty in the place of the parameter.
HostFits(rt, host) ==
    IF ~rt.hostIsParam THEN rt.host = host
    ELSE LET prefix == SubSeq(rt.host, 1, Index(rt.host, "{") - 1)
             suffix == SubSeq(rt.host, Index(rt.host, "}") + 1, Len(rt.host))
         IN  \E n \in 1..Len(host) :
                /\ Len(host) = Len(prefix) + n + Len(suffix)
                /\ SubSeq(host, 1, Len(prefix)) = prefix
                /\ SubSeq(host, Len(prefix) + n + 1, Len(host)) = suffix

\* A route matches a parsed request: same scheme, a host that fits, as many
\* path segments, the fixed ones equal, every query pair of the route present.
Matches(rt, parsed) ==
    /\ rt.scheme = parsed.scheme
    /\ HostFits(rt, parsed.host)
    /\ Len(rt.pathSegments) = Len(parsed.pathSegs)
    /\ \A i \in 1..Len(rt.pathSegments) :
          rt.pathSegments[i].isParam \/ rt.pathSegments[i].literal = parsed.pathSegs[i]
    /\ \A k \in DOMAIN rt.query : k \in DOMAIN parsed.query /\ parsed.query[k] = rt.query[k]

\* The specificity of a route: 1 for a fixed host, 1 for each fixed segment.
Specificity(rt) ==
    (IF rt.hostIsParam THEN 0 ELSE 1)
    + Cardinality({i \in 1..Len(rt.pathSegments) : ~rt.pathSegments[i].isParam})

\* The routes of the table that match the URI last executed.
Matching == {i \in 1..Len(routes) : Matches(routes[i], parseRequest(mout.uri))}

\* C29: when Execute is given a URI that parses and that some route matches,
\* it calls the handler of a matching route whose specificity is the highest
\* among the matching routes.
C29_ExecuteMostSpecific ==
    (mout.op = "execute" /\ parseRequest(mout.uri).err = "none" /\ Matching # {})
    => /\ mout.err = "none"
       /\ \E i \in Matching :
             /\ routes[i].handler = mout.handler
             /\ \A j \in Matching : Specificity(routes[j]) <= Specificity(routes[i])

\* The part of a host template before and after its parameter.
HostPrefix(rt) == SubSeq(rt.host, 1, Index(rt.host, "{") - 1)

HostSuffix(rt) == SubSeq(rt.host, Index(rt.host, "}") + 1, Len(rt.host))

\* Two routes have identical coverage: same scheme, same host (two templates
\* are the same host when they differ in the parameter's name only), the same
\* fixed or parameterized shape and the same literals at every path position,
\* and the same query pairs.
IdenticalCoverage(a, b) ==
    /\ a.scheme = b.scheme
    /\ a.hostIsParam = b.hostIsParam
    /\ IF a.hostIsParam
       THEN HostPrefix(a) = HostPrefix(b) /\ HostSuffix(a) = HostSuffix(b)
       ELSE a.host = b.host
    /\ Len(a.pathSegments) = Len(b.pathSegments)
    /\ \A i \in 1..Len(a.pathSegments) :
          /\ a.pathSegments[i].isParam = b.pathSegments[i].isParam
          /\ ~a.pathSegments[i].isParam => a.pathSegments[i].literal = b.pathSegments[i].literal
    /\ a.query = b.query

\* No two routes of the table have identical coverage.
NoTwoAlike ==
    \A i, j \in 1..Len(routes) : i < j => ~IdenticalCoverage(routes[i], routes[j])

\* The URI is a route whose coverage a route of the table has already.
Covered(u) ==
    /\ parseRoute(u, 0).err = "none"
    /\ \E i \in 1..Len(routes) : IdenticalCoverage(routes[i], parseRoute(u, 0).route)

\* C30: registering a route whose coverage is identical to that of a route
\* registered before fails with a conflict error and leaves the route table
\* as it was; and at all times no two routes of the table have identical
\* coverage.
C30_IdenticalCoverageRejected ==
    /\ []NoTwoAlike
    /\ [][\A u \in RouteURIs :
            (Handle(u) /\ Covered(u)) => (mout'.err = "conflict" /\ routes' = routes)]_vars

\* C30 witness: with two routes in the table, a registration was refused as a
\* conflict with the first of them, written in another way than that route was.
C30_Witness ==
    /\ mout.op = "handle" /\ mout.err = "conflict"
    /\ Len(routes) = 2
    /\ IdenticalCoverage(routes[1], parseRoute(mout.uri, 0).route)
    /\ ~IdenticalCoverage(routes[2], parseRoute(mout.uri, 0).route)
    /\ ToLower(mout.uri.scheme) # mout.uri.scheme

\* Execute has called the handler of a route whose host is a template.
CalledTemplateRoute ==
    /\ mout.op = "execute" /\ mout.err = "none"
    /\ routes[mout.handler].hostIsParam

\* The value the handler last called has got for its route's host parameter.
HostParamValue == mout.params[routes[mout.handler].hostParamName]

\* C31: when Execute calls the handler of a route whose host is a template
\* around one parameter, the parameter is bound to the part of the request
\* host (in lower case) that stands in the parameter's place: the text before
\* it, the value and the text after it make up the request host, and the value
\* is not empty.
C31_HostTemplateBinds ==
    CalledTemplateRoute
    => LET rt == routes[mout.handler]
       IN  /\ HostParamValue # << >>
           /\ HostPrefix(rt) \o HostParamValue \o HostSuffix(rt)
                = parseRequest(mout.uri).host

\* C31 witness: the route h://{x}a/u/p was called for the host Ba and the
\* handler has got x = b.
C31_Witness ==
    /\ CalledTemplateRoute
    /\ routes[mout.handler].host = <<"{", "x", "}", "a">>
    /\ mout.uri.host = <<"B", "a">>
    /\ HostParamValue = <<"b">>

\* C32 as stated: the value a handler gets for the host parameter is the
\* entire request host.
C32_WholeHostBound ==
    CalledTemplateRoute => HostParamValue = parseRequest(mout.uri).host

\* C32 as amended: the value is the entire request host exactly when the
\* route's host is the parameter alone; with text around the parameter the
\* request host is matched against the template and the value is the request
\* host without that text.
C32_WholeHostIffBareParam ==
    CalledTemplateRoute
    => LET rt == routes[mout.handler]
           host == parseRequest(mout.uri).host
       IN  /\ (HostParamValue = host) <=> (HostPrefix(rt) = << >> /\ HostSuffix(rt) = << >>)
           /\ Len(HostParamValue) = Len(host) - Len(HostPrefix(rt)) - Len(HostSuffix(rt))

\* C32 witness: a route whose host is the parameter alone was called and the
\* handler has got the entire host, of more than one character.
C32_Witness ==
    /\ CalledTemplateRoute
    /\ routes[mout.handler].host = <<"{", "y", "}">>
    /\ HostParamValue = parseRequest(mout.uri).host
    /\ Len(HostParamValue) > 1

\* Execute has parsed its URI.
ExecuteParsed == mout.op = "execute" /\ parseRequest(mout.uri).err = "none"

\* C33: matchRoute finds a route to match a parsed request exactly when the
\* schemes are equal, the host fits, the path segments are as many, every
\* fixed segment of the route equals the request's at its position and every
\* query pair of the route is in the request; and the query map of a handler
\* that is called has every pair of the request, those no route asked for
\* included.
C33_MatchIffConditions ==
    ExecuteParsed
    => LET parsed == parseRequest(mout.uri)
       IN  /\ \A i \in 1..Len(routes) :
                 matchRoute(routes[i], parsed).match <=> Matches(routes[i], parsed)
           /\ mout.err = "none"
              => /\ Matches(routes[mout.handler], parsed)
                 /\ DOMAIN mout.query = QueryKeys(mout.uri.query)
                 /\ \A i \in 1..Len(mout.uri.query) :
                       mout.query[mout.uri.query[i][1]] = mout.uri.query[i][2]

\* C33 witness: a route registered with the query k=v was called for a request
\* with the queries k=v and q=v, and the handler has got both.
C33_Witness ==
    /\ ExecuteParsed /\ mout.err = "none"
    /\ DOMAIN routes[mout.handler].query = {<<"k">>}
    /\ DOMAIN mout.query = {<<"k">>, <<"q">>}

\* The errors parseRequest returns.
ParseErrors == {"scheme", "host", "query"}

\* C34: when the URI parses and no route of the table matches it, Execute
\* calls the not-found handler if there is one and returns ErrNotFound if
\* there is none; when the URI does not parse, Execute returns the parse
\* error and calls no handler.
C34_NotFoundAndParseErrors ==
    mout.op = "execute"
    => /\ (ExecuteParsed /\ Matching = {})
          => mout.err = (IF notFoundHandler THEN "notFoundHandler" ELSE "ErrNotFound")
       /\ ~ExecuteParsed
          => mout.err \in ParseErrors /\ mout.err = parseRequest(mout.uri).err

\* The two routes match the same requests, among those executed here.
SameMatches(a, b) ==
    \A u \in RequestURIs :
        parseRequest(u).err = "none"
        => (Matches(a, parseRequest(u)) <=> Matches(b, parseRequest(u)))

\* C37: when Handle refuses a route as a conflict with a route of the table,
\* the two routes match exactly the same request URIs.
C37_ConflictSameMatches ==
    (mout.op = "handle" /\ mout.err = "conflict")
    => \A i \in 1..Len(routes) :
          isSameCoverage(routes[i], parseRoute(mout.uri, 0).route)
          => SameMatches(routes[i], parseRoute(mout.uri, 0).route)

\* C38: whatever the routes of the table, Execute on a URI that parses goes
\* through the matching of every route without a run-time fault: a request
\* host is rejected by a host template or a part of it is taken for the
\* parameter, also when the host is shorter than the text of the template
\* before and after the parameter together.
C38_MatchingNeverFaults ==
    ExecuteParsed
    => /\ mout.err # "panic"
       /\ \A i \in 1..Len(routes) : ~matchRoute(routes[i], parseRequest(mout.uri)).fault

\* C35: no call of Close on a session, no shutdown of the GET handler and no
\* POST panics: no channel of the session is closed twice or closed while
\* nil, and nothing is sent on the message channel after it is closed.
C35_SessionCloseSafe == spanic = {}

\* C36: once the GET handler has returned, the session it stored is not in
\* the session table.
C36_SessionRemovedOnReturn == gpc = "returned" => ~stable

\* The loop is handling a message: it has left Receive and has not come back.
Handling == lpc \in {"handle", "sendError", "handler", "bhandler", "send", "deliver"}

\* C39: the loop handles one message at a time, in the order of arrival: while
\* it handles a message, up to the return of the handler and of the Send of the
\* reply, the message it handles stays the same; a handler is invoked and a
\* delivery begun only for the message just taken from Receive; and the reply
\* whose Send begins is the reply to the request being handled, so replies to
\* single requests leave in the order the requests arrived.
C39_OneMessageAtATime ==
    [][/\ (Handling /\ lpc' # "returned") => lmsg' = lmsg
       /\ (lpc' = "handle" /\ lpc' # lpc) => lpc = "recv"
       /\ (lpc' \in {"handler", "deliver"} /\ lpc' # lpc) => lpc = "handle"
       /\ (lpc' = "send" /\ lpc # "send")
          => lpc \in {"handle", "sendError", "handler", "bhandler"}
       /\ (lpc' = "send" /\ lpc # "send" /\ IsRequest(lmsg') /\ UnmarshalOk(lmsg'))
          => lsnd'.id = UnmarshalID(lmsg'.id)]_vars

\* C39 witness: the handler of a request is running while a Call waits for
\* its response, which the loop has not delivered.
C39_Witness ==
    /\ lpc = "handler" /\ IsRequest(lmsg)
    /\ \E c \in Calls : cpc[c] = "wait" /\ slot[c] = NoMsg /\ cid[c] = NewID(1)

\* C40: the put of a response into a Call's channel never finds the buffer
\* taken, and a channel gets at most one message in its lifetime: a message
\* is put only by the loop's delivery, into an empty channel whose Call has
\* not got a response before and whose entry is out of the pending table.
C40_DeliveryNeverBlocks ==
    /\ [](lpc = "deliver" => slot[lch] = NoMsg)
    /\ [][\A c \in Calls :
            (slot'[c] # NoMsg /\ slot'[c] # slot[c])
            => /\ lpc = "deliver" /\ lch = c /\ slot'[c] = lmsg
               /\ slot[c] = NoMsg /\ cgot[c] = NoMsg
               /\ \A i \in DOMAIN pending : pending[i] # c]_vars

\* C40 witness: each of two Calls has its response in its own channel, and
\* the pending table is empty.
C40_Witness ==
    /\ DOMAIN pending = {}
    /\ \E c, d \in Calls :
          /\ c # d /\ slot[c] # NoMsg /\ slot[d] # NoMsg
          /\ cpc[c] = "wait" /\ cpc[d] = "wait"

====
